---- MODULE Spec2Model ----
(***************************************************************************)
(* Rating platform backend (Express + PostgreSQL): the users, stores and   *)
(* ratings tables, the JWT authorization gate and the request handlers of  *)
(* backend/backend/server.js.  A handler runs from the arrival of a        *)
(* request to its first storage call in one step, and then one step per    *)
(* storage statement (with the code that follows it up to the next await). *)
(*                                                                         *)
(* Strings on which the code inspects characters (emails, passwords) are   *)
(* tuples of one-character strings.  Strings of which the code and the     *)
(* schema only use the length (names, addresses) are their length.         *)
(***************************************************************************)
EXTENDS Integers, Sequences, FiniteSets, TLC

VARIABLES
    users,      \* rows of table users (committed)
    stores,     \* rows of table stores (committed)
    ratings,    \* rows of table ratings (committed)
    userSeq,    \* next value of users.id (SERIAL)
    storeSeq,   \* next value of stores.id (SERIAL)
    ratingSeq,  \* next value of ratings.id (SERIAL)
    now,        \* the server clock, in hours
    issued,     \* the tokens the server has signed (held by clients)
    pending,    \* requests in flight, each waiting on a storage call
    resp,       \* the response sent last
    nreq,       \* number of requests received
    ledger,     \* history: per (user, store), the value committed last, by which request,
                \* and the value it replaced
    signedUp,   \* history: the accounts made by signup, with the password given
    ratingData, \* the browser: the ratings it loaded last
    shown,      \* the browser: the average it displays
    authToken,  \* the browser: the token it keeps
    currentUser,\* the browser: the user whose dashboard is open
    browser,    \* the browser: where its dashboard is in loadData or in a submission
    discarded   \* history: the tokens the browser has dropped at logout, and after how many requests

vars == <<users, stores, ratings, userSeq, storeSeq, ratingSeq, now, issued,
          pending, resp, nreq, ledger, signedUp, ratingData, shown, authToken, currentUser, browser, discarded>>

tables == <<users, stores, ratings>>

----------------------------------------------------------------------------
(* Bounds of the model *)

MaxReqs == 3
MaxNow == 25
MaxRatings == 20
MaxMixed == 6
MaxUsers == 25
MaxSessionHours == 1

(* Program constants *)

TokenTTL == 24
NameMin == 20
NameMax == 60
AddressMax == 400
PasswordMin == 8
PasswordMax == 16
RatingMin == 1
RatingMax == 5
OwnerSuffixLen == 6
JWT_SECRET == "your-secret-key-change-this-in-production"

----------------------------------------------------------------------------
(* Strings *)

AdminEmail == <<"a", "d", "m", "i", "n", "@", "a", "p", "p", ".", "c", "o", "m">>
JaneEmail == <<"j", "a", "n", "e", "@", "u", "s", "e", "r", ".", "c", "o", "m">>
MegaOwnerEmail == <<"m", "e", "g", "a", "m", "a", "r", "t", "@", "o", "w", "n", "e", "r", ".", "c", "o", "m">>
QsOwnerEmail == <<"q", "s", "@", "o", "w", "n", "e", "r", ".", "c", "o", "m">>
AliceEmail == <<"a", "l", "i", "c", "e", "@", "t", "e", "s", "t", ".", "c", "o", "m">>
BobEmail == <<"b", "o", "b", "@", "t", "e", "s", "t", ".", "c", "o", "m">>
MegaStoreEmail == <<"m", "e", "g", "a", "m", "a", "r", "t", "@", "s", "t", "o", "r", "e", ".", "c", "o", "m">>
QuickStoreEmail == <<"q", "u", "i", "c", "k", "s", "t", "o", "p", "@", "s", "t", "o", "r", "e", ".", "c", "o", "m">>
NewEmail == <<"n", "e", "w", "@", "x", ".", "i", "o">>
OtherEmail == <<"o", "@", "y", ".", "i", "o">>
NoDotEmail == <<"a", "@", "b">>
SpaceEmail == <<"a", " ", "b", "@", "x", ".", "i", "o">>
Missing == <<>>

AdminPw == <<"A", "d", "m", "i", "n", "@", "1", "2", "3">>
UserPw == <<"U", "s", "e", "r", "@", "1", "2", "3">>
StorePw == <<"S", "t", "o", "r", "e", "@", "1", "2", "3">>
ValidPw == <<"V", "a", "l", "i", "d", "@", "1", "2", "3">>
ShortPw == <<"s", "h", "o", "r", "t", "1", "!">>
LowerPw == <<"a", "l", "l", "l", "o", "w", "e", "r", "c", "a", "s", "e", "1", "!">>
NoSpecialPw == <<"P", "a", "s", "s", "w", "o", "r", "d", "1">>
SevenPw == <<"S", "h", "o", "r", "t", "1", "!">>

\* A value of a JSON body need not be a string: NumberPw is the number 12345,
\* given by its digits.  It is sent to login only.
NumberPw == <<"1", "2", "3", "4", "5">>
JsonNumbers == {NumberPw}
typeof(v) == IF v \in JsonNumbers THEN "number" ELSE "string"

SixteenPw == <<"S", "i", "x", "t", "e", "e", "n", "C", "h", "a", "r", "s", "#", "1", "2", "3">>
SeventeenPw == <<"S", "e", "v", "e", "n", "t", "e", "e", "n", "C", "h", "a", "r", "s", "#", "1", "2">>

UpperChars == {"A", "B", "C", "D", "E", "F", "G", "H", "I", "J", "K", "L", "M",
               "N", "O", "P", "Q", "R", "S", "T", "U", "V", "W", "X", "Y", "Z"}
SpecialChars == {"!", "@", "#", "$", "%", "^", "&", "*", "(", ")"}
SpaceChars == {" "}

HasChar(s, cs) == \E i \in 1..Len(s) : s[i] \in cs

DigitChars == <<"0", "1", "2", "3", "4", "5", "6", "7", "8", "9">>

IsDigit(ch) == \E d \in 1..10 : DigitChars[d] = ch

DigitValue(ch) == (CHOOSE d \in 1..10 : DigitChars[d] = ch) - 1

\* the number that the digits of s spell, whatever stands between them
RECURSIVE DigitsValue(_)
DigitsValue(s) ==
    IF s = <<>> THEN 0
    ELSE IF IsDigit(s[Len(s)]) THEN 10 * DigitsValue(SubSeq(s, 1, Len(s) - 1)) + DigitValue(s[Len(s)])
    ELSE DigitsValue(SubSeq(s, 1, Len(s) - 1))

\* Number.isNaN
NaN == -1

\* parseInt(s): the number its leading digits spell, NaN when it has none
parseInt(s) ==
    LET n == IF \E i \in 1..Len(s) : ~IsDigit(s[i])
             THEN (CHOOSE i \in 1..Len(s) : ~IsDigit(s[i]) /\ \A j \in 1..(i - 1) : IsDigit(s[j])) - 1
             ELSE Len(s)
    IN  IF n = 0 THEN NaN ELSE DigitsValue(SubSeq(s, 1, n))

----------------------------------------------------------------------------
(* Validation helpers: each returns the error message, or "" for null *)

\* the validator with <= for <
validate_nameOffByOne(name) ==
    IF name = 0 \/ name <= NameMin THEN "Name must be at least 20 characters."
    ELSE IF name > NameMax THEN "Name cannot exceed 60 characters."
    ELSE ""

validate_name(name) ==
    IF name = 0 \/ name < NameMin THEN "Name must be at least 20 characters."
    ELSE IF name > NameMax THEN "Name cannot exceed 60 characters."
    ELSE ""

validate_address(address) ==
    IF address = 0 THEN "Address is required."
    ELSE IF address > AddressMax THEN "Address cannot exceed 400 characters."
    ELSE ""

\* the validator without its test for an uppercase letter
validate_passwordNoUppercase(password) ==
    IF password = Missing \/ Len(password) < PasswordMin THEN "Password must be 8-16 characters."
    ELSE IF Len(password) > PasswordMax THEN "Password must be 8-16 characters."
    ELSE IF ~HasChar(password, SpecialChars) THEN "Password must include at least one special character (!@#$%^&*())."
    ELSE ""

validate_password(password) ==
    IF password = Missing \/ Len(password) < PasswordMin THEN "Password must be 8-16 characters."
    ELSE IF Len(password) > PasswordMax THEN "Password must be 8-16 characters."
    ELSE IF ~HasChar(password, UpperChars) THEN "Password must include at least one uppercase letter."
    ELSE IF ~HasChar(password, SpecialChars) THEN "Password must include at least one special character (!@#$%^&*())."
    ELSE ""

\* /^[^\s@]+@[^\s@]+\.[^\s@]+$/ : no white space, exactly one "@", not first,
\* and after it a "." that is neither the first nor the last character.
EmailMatches(email) ==
    /\ ~HasChar(email, SpaceChars)
    /\ Cardinality({i \in 1..Len(email) : email[i] = "@"}) = 1
    /\ \E a \in 2..Len(email) :
          /\ email[a] = "@"
          /\ \E d \in (a + 2)..(Len(email) - 1) : email[d] = "."

validate_email(email) ==
    IF ~EmailMatches(email) THEN "Invalid email format." ELSE ""

\* A rating in the request body is a JSON value: a number, kept in tenths so
\* that 2.5 is {num, 25}, or something Number() maps to NaN.
validate_rating(rating) ==
    IF rating.kind # "num" \/ rating.x10 < RatingMin * 10 \/ rating.x10 > RatingMax * 10
    THEN "Rating must be between 1 and 5."
    ELSE ""

\* a || b || c || d over messages
FirstError(msgs) ==
    IF \A i \in 1..Len(msgs) : msgs[i] = "" THEN ""
    ELSE msgs[CHOOSE i \in 1..Len(msgs) : msgs[i] # "" /\ \A j \in 1..(i - 1) : msgs[j] = ""]

----------------------------------------------------------------------------
(* bcrypt: a salted one-way hash.  The stored value carries the salt and    *)
(* the digest of (salt, password); compare recomputes the digest.           *)

Salts == {"s1", "s2"}

Digest(salt, password) == <<"bcrypt", salt, password>>

bcrypt_hash(password, salt) == [salt |-> salt, digest |-> Digest(salt, password)]

\* a comparison that recomputes the digest under a fixed salt
bcrypt_compareFixedSalt(password, hashed) == Digest("s1", password) = hashed.digest

bcrypt_compare(password, hashed) == Digest(hashed.salt, password) = hashed.digest

----------------------------------------------------------------------------
(* jsonwebtoken: a payload and a signature over it under the secret *)

Signature(payload, secret) == [key |-> secret, over |-> payload]

jwt_sign(user, t) ==
    LET payload == [id |-> user.id, email |-> user.email, role |-> user.role,
                    iat |-> t, exp |-> t + TokenTTL]
    IN  [payload |-> payload, sig |-> Signature(payload, JWT_SECRET)]

\* verification with ignoreExpiration
jwt_verifyIgnoreExpiration(token, t) ==
    IF token.sig # Signature(token.payload, JWT_SECRET) THEN "invalid signature" ELSE "ok"

\* "ok" when the signature is the server's and the token has not expired
\* (jsonwebtoken rejects when the clock has reached exp)
jwt_verify(token, t) ==
    IF token.sig # Signature(token.payload, JWT_SECRET) THEN "invalid signature"
    ELSE IF t >= token.payload.exp THEN "jwt expired"
    ELSE "ok"

NoPayload == [id |-> 0, email |-> Missing, role |-> "none", iat |-> 0, exp |-> 0]
NoToken == [payload |-> NoPayload, sig |-> Signature(NoPayload, "none")]

\* The Authorization header of a request
NoAuth == [kind |-> "none", token |-> NoToken]
MalformedAuth == [kind |-> "malformed", token |-> NoToken]
Bearer(token) == [kind |-> "bearer", token |-> token]

\* a gate that turns away the tokens dropped at logout
authenticateTokenRevoking(auth, t) ==
    IF auth.kind = "none" THEN 401
    ELSE IF auth.kind = "malformed" THEN 403
    ELSE IF jwt_verify(auth.token, t) # "ok" THEN 403
    ELSE IF \E d \in discarded : d.token = auth.token THEN 403
    ELSE 0

\* authenticateToken: 0 when next() is called, else the status answered
authenticateToken(auth, t) ==
    IF auth.kind = "none" THEN 401
    ELSE IF auth.kind = "malformed" THEN 403
    ELSE IF jwt_verify(auth.token, t) # "ok" THEN 403
    ELSE 0

authenticateTokenMessage(auth, t) ==
    IF auth.kind = "none" THEN "Access token required" ELSE "Invalid or expired token"

\* a self-scope check that lets every caller through
isSelfAlways(user, userId) == TRUE

\* req.user.id !== userId, the self-scope check of POST /api/ratings
isSelf(user, userId) == user.id = userId

\* a role check that stops only normal users
requireAdminNotUser(user) == IF user.role = "user" THEN 403 ELSE 0

\* requireUser (used by no route): 0 when next() is called, else the status answered
requireUser(user) == IF user.role # "user" THEN 403 ELSE 0

\* requireAdmin: 0 when next() is called, else the status answered
requireAdmin(user) == IF user.role # "admin" THEN 403 ELSE 0

----------------------------------------------------------------------------
(* The database after db/seedData.js *)

SeedHash(password) == bcrypt_hash(password, "s0")

SeedUsers == {
    [id |-> 1, name |-> 24, email |-> AdminEmail, password |-> SeedHash(AdminPw), address |-> 27, role |-> "admin"],
    [id |-> 2, name |-> 28, email |-> JaneEmail, password |-> SeedHash(UserPw), address |-> 28, role |-> "user"],
    [id |-> 3, name |-> 30, email |-> MegaOwnerEmail, password |-> SeedHash(StorePw), address |-> 33, role |-> "store_owner"],
    [id |-> 4, name |-> 31, email |-> QsOwnerEmail, password |-> SeedHash(StorePw), address |-> 35, role |-> "store_owner"],
    [id |-> 5, name |-> 32, email |-> AliceEmail, password |-> SeedHash(UserPw), address |-> 33, role |-> "user"],
    [id |-> 6, name |-> 36, email |-> BobEmail, password |-> SeedHash(UserPw), address |-> 27, role |-> "user"] }

SeedStores == {
    [id |-> 1, name |-> 25, email |-> MegaStoreEmail, address |-> 33, owner_id |-> 3],
    [id |-> 2, name |-> 36, email |-> QuickStoreEmail, address |-> 35, owner_id |-> 4] }

SeedRatings == {
    [id |-> 1, user_id |-> 2, store_id |-> 1, rating |-> 5],
    [id |-> 2, user_id |-> 5, store_id |-> 1, rating |-> 4],
    [id |-> 3, user_id |-> 6, store_id |-> 2, rating |-> 5],
    [id |-> 4, user_id |-> 2, store_id |-> 2, rating |-> 3] }


----------------------------------------------------------------------------
(* Storage: the constraints of db/schema.sql.  Each returns the SQLSTATE of *)
(* the error the statement raises, or "" when it succeeds.                  *)

\* rows other transactions have inserted and not yet committed
UncommittedUsers(r) == {q.tmp.owner : q \in {p \in pending \ {r} : p.op = "addStore" /\ p.pc \in {"insertStore", "commit"}}}

UsersInsertError(row) ==
    IF row.name > NameMax THEN "22001"                                    \* VARCHAR(60)
    ELSE IF row.name < NameMin \/ row.address > AddressMax THEN "23514"   \* CHECK
    ELSE IF row.role \notin {"admin", "user", "store_owner"} THEN "23514" \* CHECK
    ELSE IF \E u \in users : u.email = row.email THEN "23505"             \* UNIQUE
    ELSE ""

StoresInsertError(row, visibleUsers) ==
    IF row.name > NameMax THEN "22001"
    ELSE IF row.name < NameMin \/ row.address > AddressMax THEN "23514"
    ELSE IF \E s \in stores : s.email = row.email \/ s.owner_id = row.owner_id THEN "23505"
    ELSE IF ~\E u \in visibleUsers : u.id = row.owner_id THEN "23503"     \* REFERENCES users
    ELSE ""

\* The integer a text parameter stands for (the input function of INTEGER),
\* or InvalidText when the statement fails with 22P02.  Digits alone are that
\* number.  Digits with single underscores between them are a number from
\* PostgreSQL 16 on and an error before (the README asks for PostgreSQL 12+).
InvalidText == -2

int4in(s) ==
    IF s # <<>> /\ \A i \in 1..Len(s) : IsDigit(s[i]) THEN {DigitsValue(s)}
    ELSE IF /\ s # <<>> /\ IsDigit(s[1]) /\ IsDigit(s[Len(s)])
            /\ \A i \in 1..Len(s) : IsDigit(s[i]) \/ s[i] = "_"
            /\ \A i \in 1..(Len(s) - 1) : ~(s[i] = "_" /\ s[i + 1] = "_")
    THEN {DigitsValue(s), InvalidText}
    ELSE {InvalidText}

\* the table without its REFERENCES clauses
RatingsUpsertErrorNoReferences(user_id, store_id, rating) ==
    IF rating.x10 % 10 # 0 THEN "22P02"
    ELSE IF rating.x10 < RatingMin * 10 \/ rating.x10 > RatingMax * 10 THEN "23514"
    ELSE ""

\* INSERT ... ON CONFLICT (user_id, store_id) DO UPDATE SET rating = $3
RatingsUpsertError(user_id, store_id, rating) ==
    IF rating.x10 % 10 # 0 THEN "22P02"                                   \* INTEGER
    ELSE IF rating.x10 < RatingMin * 10 \/ rating.x10 > RatingMax * 10 THEN "23514"
    ELSE IF \E x \in ratings : x.user_id = user_id /\ x.store_id = store_id THEN ""
    ELSE IF ~\E u \in users : u.id = user_id THEN "23503"
    ELSE IF ~\E s \in stores : s.id = store_id THEN "23503"
    ELSE ""

\* INSERT without the ON CONFLICT clause (and without the constraint behind it)
RatingsUpsertAlwaysInsert(user_id, store_id, value) ==
    ratings \cup {[id |-> ratingSeq, user_id |-> user_id, store_id |-> store_id, rating |-> value]}

\* ON CONFLICT ... DO UPDATE that overwrites every rating of the user
RatingsUpsertWrongWhere(user_id, store_id, value) ==
    IF \E x \in ratings : x.user_id = user_id /\ x.store_id = store_id
    THEN {IF x.user_id = user_id THEN [x EXCEPT !.rating = value] ELSE x : x \in ratings}
    ELSE ratings \cup {[id |-> ratingSeq, user_id |-> user_id, store_id |-> store_id, rating |-> value]}

\* ON CONFLICT ... DO NOTHING: the row committed first stays
RatingsUpsertDoNothing(user_id, store_id, value) ==
    IF \E x \in ratings : x.user_id = user_id /\ x.store_id = store_id
    THEN ratings
    ELSE ratings \cup {[id |-> ratingSeq, user_id |-> user_id, store_id |-> store_id, rating |-> value]}

RatingsUpsert(user_id, store_id, value) ==
    IF \E x \in ratings : x.user_id = user_id /\ x.store_id = store_id
    THEN {IF x.user_id = user_id /\ x.store_id = store_id THEN [x EXCEPT !.rating = value] ELSE x : x \in ratings}
    ELSE ratings \cup {[id |-> ratingSeq, user_id |-> user_id, store_id |-> store_id, rating |-> value]}

RatingIdOf(rows, user_id, store_id) ==
    (CHOOSE x \in rows : x.user_id = user_id /\ x.store_id = store_id).id

LedgerPut(user_id, store_id, value, rid) ==
    LET old == {e \in ledger : e.user_id = user_id /\ e.store_id = store_id}
        prev == IF old = {} THEN [rating |-> 0, rid |-> 0] ELSE CHOOSE e \in old : TRUE
    IN  (ledger \ old) \cup {[user_id |-> user_id, store_id |-> store_id, rating |-> value, rid |-> rid,
                               prev |-> prev.rating, prevRid |-> prev.rid]}

----------------------------------------------------------------------------
(* Requests and responses *)

NoOut == [none |-> TRUE]
NoReq == [auth |-> NoAuth, body |-> [none |-> TRUE]]
NoResp == [rid |-> 0, op |-> "none", status |-> 0, msg |-> "", req |-> NoReq, out |-> NoOut, err |-> ""]

\* a request arrives and is answered before any storage call
Answer(op, status, msg, req, out) ==
    /\ resp' = [rid |-> nreq + 1, op |-> op, status |-> status, msg |-> msg, req |-> req, out |-> out, err |-> ""]
    /\ UNCHANGED pending

\* a request arrives and waits on its first storage call
Await(op, pc, user, req) ==
    /\ pending' = pending \cup {[rid |-> nreq + 1, op |-> op, pc |-> pc, user |-> user, req |-> req, tmp |-> NoOut]}
    /\ UNCHANGED resp

\* a waiting request is answered
Finish(r, status, msg, out) ==
    /\ pending' = pending \ {r}
    /\ resp' = [rid |-> r.rid, op |-> r.op, status |-> status, msg |-> msg, req |-> r.req, out |-> out, err |-> ""]

\* a waiting request is answered from its catch block, which logs the error
Fail(r, status, msg, code) ==
    /\ pending' = pending \ {r}
    /\ resp' = [rid |-> r.rid, op |-> r.op, status |-> status, msg |-> msg, req |-> r.req, out |-> NoOut, err |-> code]

\* a waiting request goes on to its next storage call
Continue(r, pc, tmp) ==
    /\ pending' = (pending \ {r}) \cup {[r EXCEPT !.pc = pc, !.tmp = tmp]}
    /\ UNCHANGED resp

Arrive == nreq < MaxReqs /\ nreq' = nreq + 1

Waiting(op, pc) == {r \in pending : r.op = op /\ r.pc = pc}

\* the row as it was selected, its password with it
PublicWithPassword(user) == user

\* the user of an answer: delete user.password, or a RETURNING list without it
Public(user) == [id |-> user.id, name |-> user.name, email |-> user.email, role |-> user.role, address |-> user.address]

----------------------------------------------------------------------------
(* POST /api/auth/login *)

LoginStart(email, password) ==
    LET req == [auth |-> NoAuth, body |-> [email |-> email, password |-> password]] IN
    /\ Arrive
    /\ IF email = Missing \/ password = Missing
       THEN Answer("login", 400, "Email and password are required", req, NoOut)
       ELSE Await("login", "selectUser", NoPayload, req)
    /\ UNCHANGED <<users, stores, ratings, userSeq, storeSeq, ratingSeq, now, issued, ledger, signedUp, ratingData, shown, authToken, currentUser, browser, discarded>>

LoginIssue(r, user, storeId) ==
    LET token == jwt_sign(user, now) IN
    /\ issued' = issued \cup {token}
    /\ Finish(r, 200, "", [user |-> Public(user), storeId |-> storeId, token |-> token])

\* an answer that tells the caller the email is unknown
LoginNotFoundTelling(r) == Finish(r, 404, "User not found", NoOut)

\* result.rows.length === 0
LoginNotFound(r) == Finish(r, 401, "Invalid credentials", NoOut)

LoginSelectUser(r) ==
    LET rows == {u \in users : u.email = r.req.body.email} IN
    /\ r \in Waiting("login", "selectUser")
    /\ IF rows = {}
       THEN LoginNotFound(r) /\ UNCHANGED issued
       ELSE LET user == CHOOSE u \in rows : TRUE IN
            IF typeof(r.req.body.password) # "string"     \* bcrypt.compare throws
            THEN Fail(r, 500, "Server error during login.", "data and hash must be strings")
                    /\ UNCHANGED issued
            ELSE IF ~bcrypt_compare(r.req.body.password, user.password)
            THEN Finish(r, 401, "Invalid credentials", NoOut) /\ UNCHANGED issued
            ELSE IF user.role = "store_owner"
            THEN Continue(r, "selectStore", Public(user)) /\ UNCHANGED issued
            ELSE LoginIssue(r, user, 0)
    /\ UNCHANGED <<users, stores, ratings, userSeq, storeSeq, ratingSeq, now, nreq, ledger, signedUp, ratingData, shown, authToken, currentUser, browser, discarded>>

LoginSelectStore(r) ==
    LET rows == {s \in stores : s.owner_id = r.tmp.id} IN
    /\ r \in Waiting("login", "selectStore")
    /\ LoginIssue(r, r.tmp, IF rows = {} THEN 0 ELSE (CHOOSE s \in rows : TRUE).id)
    /\ UNCHANGED <<users, stores, ratings, userSeq, storeSeq, ratingSeq, now, nreq, ledger, signedUp, ratingData, shown, authToken, currentUser, browser, discarded>>

----------------------------------------------------------------------------
(* POST /api/auth/signup *)

SignupStart(body) ==
    LET req == [auth |-> NoAuth, body |-> body]
        err == FirstError(<<validate_name(body.name), validate_email(body.email),
                            validate_address(body.address), validate_password(body.password)>>)
    IN
    /\ Arrive
    /\ IF err # "" THEN Answer("signup", 400, err, req, NoOut)
       ELSE Await("signup", "select", NoPayload, req)
    /\ UNCHANGED <<users, stores, ratings, userSeq, storeSeq, ratingSeq, now, issued, ledger, signedUp, ratingData, shown, authToken, currentUser, browser, discarded>>

\* the handler without its existence check
SelectExistingSkipped(r) ==
    /\ Continue(r, "insert", NoOut)
    /\ UNCHANGED <<users, stores, ratings, userSeq, storeSeq, ratingSeq, now, issued, nreq, ledger, signedUp, ratingData, shown, authToken, currentUser, browser, discarded>>

\* SELECT 1 FROM users WHERE email = $1, shared with POST /api/admin/users
SelectExisting(r) ==
    /\ IF \E u \in users : u.email = r.req.body.email
       THEN Finish(r, 400, "Email already exists", NoOut)
       ELSE Continue(r, "insert", NoOut)
    /\ UNCHANGED <<users, stores, ratings, userSeq, storeSeq, ratingSeq, now, issued, nreq, ledger, signedUp, ratingData, shown, authToken, currentUser, browser, discarded>>

SignupSelect(r) == r \in Waiting("signup", "select") /\ SelectExisting(r)

SignupInsert(r, salt) ==
    LET b == r.req.body
        row == [id |-> userSeq, name |-> b.name, email |-> b.email,
                password |-> bcrypt_hash(b.password, salt), address |-> b.address, role |-> "user"]
    IN
    /\ r \in Waiting("signup", "insert")
    /\ ~\E u \in UncommittedUsers(r) : u.email = b.email     \* else the INSERT waits
    /\ IF UsersInsertError(row) # ""
       THEN /\ Fail(r, 500, "Server error during signup.", UsersInsertError(row))
            /\ UNCHANGED <<users, userSeq, issued, signedUp>>
       ELSE LET token == jwt_sign(row, now) IN
            /\ users' = users \cup {row}
            /\ userSeq' = userSeq + 1
            /\ issued' = issued \cup {token}
            /\ signedUp' = signedUp \cup {[id |-> row.id, email |-> row.email, role |-> row.role,
                                             password |-> b.password]}
            /\ Finish(r, 201, "", [user |-> Public(row), storeId |-> 0, token |-> token])
    /\ UNCHANGED <<stores, ratings, storeSeq, ratingSeq, now, nreq, ledger, ratingData, shown, authToken, currentUser, browser, discarded>>

----------------------------------------------------------------------------
(* GET /api/data/users, /api/data/stores, /api/data/ratings *)

\* the request of a list, from its arrival to the query
GetArrive(op, auth) ==
    LET req == [auth |-> auth, body |-> [none |-> TRUE]]
        st == authenticateToken(auth, now)
    IN
    /\ Arrive
    /\ IF st # 0 THEN Answer(op, st, authenticateTokenMessage(auth, now), req, NoOut)
       ELSE Await(op, "select", auth.token.payload, req)
    /\ UNCHANGED <<users, stores, ratings, userSeq, storeSeq, ratingSeq, now, issued, ledger, signedUp>>

GetStart(op, auth) ==
    /\ GetArrive(op, auth)
    /\ UNCHANGED <<ratingData, shown, authToken, currentUser, browser, discarded>>

StoreIdOfOwner(u) ==
    IF \E s \in stores : s.owner_id = u.id THEN (CHOOSE s \in stores : s.owner_id = u.id).id ELSE 0

GetUsersRows ==
    {[id |-> u.id, name |-> u.name, email |-> u.email, role |-> u.role,
      address |-> u.address, storeId |-> StoreIdOfOwner(u)] : u \in users}

GetRatingsRows ==
    {[id |-> x.id, user_id |-> x.user_id, store_id |-> x.store_id, rating |-> x.rating,
      user_email |-> (CHOOSE u \in users : u.id = x.user_id).email] :
        x \in {y \in ratings : \E u \in users : u.id = y.user_id}}

\* the query of a list and its answer
GetAnswer(r) ==
    /\ r \in pending /\ r.op \in {"getUsers", "getStores", "getRatings"} /\ r.pc = "select"
    /\ Finish(r, 200, "", [rows |-> IF r.op = "getUsers" THEN GetUsersRows
                                    ELSE IF r.op = "getStores" THEN stores
                                    ELSE GetRatingsRows])
    /\ UNCHANGED <<users, stores, ratings, userSeq, storeSeq, ratingSeq, now, issued, nreq, ledger, signedUp>>

\* the answer goes to a client other than the dashboard that waits for it
GetSelect(r) ==
    /\ r.rid # browser.rid
    /\ GetAnswer(r)
    /\ UNCHANGED <<ratingData, shown, authToken, currentUser, browser, discarded>>


----------------------------------------------------------------------------
(* POST /api/admin/users *)

\* a role check that takes every role of the schema
roleAllowedOfSchema(role) == role \in {"admin", "user", "store_owner"}

\* role !== 'admin' && role !== 'user'
roleAllowed(role) == role \in {"admin", "user"}

AddUserStart(auth, body) ==
    LET req == [auth |-> auth, body |-> body]
        st == authenticateToken(auth, now)
        user == auth.token.payload
        err == FirstError(<<validate_name(body.name), validate_email(body.email),
                            validate_address(body.address), validate_password(body.password)>>)
    IN
    /\ Arrive
    /\ IF st # 0 THEN Answer("addUser", st, authenticateTokenMessage(auth, now), req, NoOut)
       ELSE IF requireAdmin(user) # 0 THEN Answer("addUser", requireAdmin(user), "Admin access required", req, NoOut)
       ELSE IF err # "" THEN Answer("addUser", 400, err, req, NoOut)
       ELSE IF ~roleAllowed(body.role)
       THEN Answer("addUser", 400, "Invalid role. Must be admin or user.", req, NoOut)
       ELSE Await("addUser", "select", user, req)
    /\ UNCHANGED <<users, stores, ratings, userSeq, storeSeq, ratingSeq, now, issued, ledger, signedUp, ratingData, shown, authToken, currentUser, browser, discarded>>

AddUserSelect(r) == r \in Waiting("addUser", "select") /\ SelectExisting(r)

AddUserInsert(r, salt) ==
    LET b == r.req.body
        row == [id |-> userSeq, name |-> b.name, email |-> b.email,
                password |-> bcrypt_hash(b.password, salt), address |-> b.address, role |-> b.role]
    IN
    /\ r \in Waiting("addUser", "insert")
    /\ ~\E u \in UncommittedUsers(r) : u.email = b.email     \* else the INSERT waits
    /\ IF UsersInsertError(row) # ""
       THEN /\ Fail(r, 500, "Server error adding user.", UsersInsertError(row))
            /\ UNCHANGED <<users, userSeq>>
       ELSE /\ users' = users \cup {row}
            /\ userSeq' = userSeq + 1
            /\ Finish(r, 201, "User added successfully", [userId |-> row.id])
    /\ UNCHANGED <<stores, ratings, storeSeq, ratingSeq, now, issued, nreq, ledger, signedUp, ratingData, shown, authToken, currentUser, browser, discarded>>

----------------------------------------------------------------------------
(* POST /api/admin/stores: one transaction, BEGIN .. COMMIT or ROLLBACK.    *)
(* The rows it inserts stay in the request (tmp) until COMMIT.              *)

AddStoreStart(auth, body) ==
    LET req == [auth |-> auth, body |-> body]
        st == authenticateToken(auth, now)
        user == auth.token.payload
        err == FirstError(<<validate_name(body.name), validate_email(body.email),
                            validate_address(body.address)>>)
    IN
    /\ Arrive
    /\ IF st # 0 THEN Answer("addStore", st, authenticateTokenMessage(auth, now), req, NoOut)
       ELSE IF requireAdmin(user) # 0 THEN Answer("addStore", requireAdmin(user), "Admin access required", req, NoOut)
       ELSE IF err # "" THEN Answer("addStore", 400, err, req, NoOut)
       ELSE Await("addStore", "insertOwner", user, req)
    /\ UNCHANGED <<users, stores, ratings, userSeq, storeSeq, ratingSeq, now, issued, ledger, signedUp, ratingData, shown, authToken, currentUser, browser, discarded>>

\* the catch block: ROLLBACK, then 400 on a unique violation and 500 otherwise
AddStoreRollback(r, code) ==
    IF code = "23505"
    THEN Fail(r, 400, "Email already exists for a user/owner.", code)
    ELSE Fail(r, 500, "Server error adding store/owner.", code)

\* the owner INSERT sent through the pool, outside the transaction
AddStoreInsertOwnerAutocommit(r, salt) ==
    LET b == r.req.body
        row == [id |-> userSeq, name |-> b.name + OwnerSuffixLen, email |-> b.email,
                password |-> bcrypt_hash(StorePw, salt), address |-> b.address, role |-> "store_owner"]
        code == UsersInsertError(row)
    IN
    /\ r \in Waiting("addStore", "insertOwner")
    /\ IF code # ""
       THEN AddStoreRollback(r, code) /\ UNCHANGED <<users, userSeq>>
       ELSE /\ userSeq' = userSeq + 1
            /\ users' = users \cup {row}
            /\ Continue(r, "insertStore", [owner |-> row])
    /\ UNCHANGED <<stores, ratings, storeSeq, ratingSeq, now, issued, nreq, ledger, signedUp, ratingData, shown, authToken, currentUser, browser, discarded>>

AddStoreInsertOwner(r, salt) ==
    LET b == r.req.body
        row == [id |-> userSeq, name |-> b.name + OwnerSuffixLen, email |-> b.email,
                password |-> bcrypt_hash(StorePw, salt), address |-> b.address, role |-> "store_owner"]
        code == UsersInsertError(row)
    IN
    /\ r \in Waiting("addStore", "insertOwner")
    /\ ~\E u \in UncommittedUsers(r) : u.email = b.email     \* else the INSERT waits
    /\ IF code # ""
       THEN AddStoreRollback(r, code) /\ UNCHANGED userSeq
       ELSE /\ userSeq' = userSeq + 1
            /\ Continue(r, "insertStore", [owner |-> row])
    /\ UNCHANGED <<users, stores, ratings, storeSeq, ratingSeq, now, issued, nreq, ledger, signedUp, ratingData, shown, authToken, currentUser, browser, discarded>>

\* a catch block that leaves the owner in place when the store INSERT fails
AddStoreInsertStoreKeepsOwner(r) ==
    LET b == r.req.body
        row == [id |-> storeSeq, name |-> b.name, email |-> b.email, address |-> b.address,
                owner_id |-> r.tmp.owner.id]
        code == StoresInsertError(row, users \cup {r.tmp.owner})
    IN
    /\ r \in Waiting("addStore", "insertStore")
    /\ IF code # ""
       THEN AddStoreRollback(r, code) /\ users' = users \cup {r.tmp.owner} /\ UNCHANGED storeSeq
       ELSE /\ storeSeq' = storeSeq + 1
            /\ Continue(r, "commit", [owner |-> r.tmp.owner, store |-> row])
            /\ UNCHANGED users
    /\ UNCHANGED <<stores, ratings, userSeq, ratingSeq, now, issued, nreq, ledger, signedUp, ratingData, shown, authToken, currentUser, browser, discarded>>

AddStoreInsertStore(r) ==
    LET b == r.req.body
        row == [id |-> storeSeq, name |-> b.name, email |-> b.email, address |-> b.address,
                owner_id |-> r.tmp.owner.id]
        code == StoresInsertError(row, users \cup {r.tmp.owner})
    IN
    /\ r \in Waiting("addStore", "insertStore")
    /\ IF code # ""
       THEN AddStoreRollback(r, code) /\ UNCHANGED storeSeq
       ELSE /\ storeSeq' = storeSeq + 1
            /\ Continue(r, "commit", [owner |-> r.tmp.owner, store |-> row])
    /\ UNCHANGED <<users, stores, ratings, userSeq, ratingSeq, now, issued, nreq, ledger, signedUp, ratingData, shown, authToken, currentUser, browser, discarded>>

AddStoreCommit(r) ==
    /\ r \in Waiting("addStore", "commit")
    /\ users' = users \cup {r.tmp.owner}
    /\ stores' = stores \cup {r.tmp.store}
    /\ Finish(r, 201, "Store and Owner added successfully",
              [storeId |-> r.tmp.store.id, ownerId |-> r.tmp.owner.id])
    /\ UNCHANGED <<ratings, userSeq, storeSeq, ratingSeq, now, issued, nreq, ledger, signedUp, ratingData, shown, authToken, currentUser, browser, discarded>>

\* any statement of the transaction fails for a reason of the storage itself
AddStoreStorageError(r) ==
    /\ r \in pending /\ r.op = "addStore"
    /\ AddStoreRollback(r, "08006")
    /\ UNCHANGED <<users, stores, ratings, userSeq, storeSeq, ratingSeq, now, issued, nreq, ledger, signedUp, ratingData, shown, authToken, currentUser, browser, discarded>>

----------------------------------------------------------------------------
(* PUT /api/users/:userId/password *)

PasswordStart(auth, userId, newPassword) ==
    LET req == [auth |-> auth, body |-> [userId |-> userId, newPassword |-> newPassword]]
        st == authenticateToken(auth, now)
        user == auth.token.payload
        err == validate_password(newPassword)
    IN
    /\ Arrive
    /\ IF st # 0 THEN Answer("password", st, authenticateTokenMessage(auth, now), req, NoOut)
       ELSE IF user.id # parseInt(userId) /\ user.role # "admin"
       THEN Answer("password", 403, "You can only update your own password", req, NoOut)
       ELSE IF err # "" THEN Answer("password", 400, err, req, NoOut)
       ELSE Await("password", "update", user, req)
    /\ UNCHANGED <<users, stores, ratings, userSeq, storeSeq, ratingSeq, now, issued, ledger, signedUp, ratingData, shown, authToken, currentUser, browser, discarded>>

\* an UPDATE that writes the role with the password
PasswordUpdateResettingRole(r, salt) ==
    LET b == r.req.body IN
    /\ r \in Waiting("password", "update")
    /\ \E id \in int4in(b.userId) :
          IF id = InvalidText
          THEN Fail(r, 500, "Failed to update password.", "22P02") /\ UNCHANGED users
          ELSE /\ users' = {IF u.id = id
                            THEN [u EXCEPT !.password = bcrypt_hash(b.newPassword, salt), !.role = "user"]
                            ELSE u : u \in users}
               /\ Finish(r, 200, "Password updated successfully", NoOut)
    /\ UNCHANGED <<stores, ratings, userSeq, storeSeq, ratingSeq, now, issued, nreq, ledger, signedUp, ratingData, shown, authToken, currentUser, browser, discarded>>

\* UPDATE users SET password = $1 WHERE id = $2, with the userId of the path
PasswordUpdate(r, salt) ==
    LET b == r.req.body IN
    /\ r \in Waiting("password", "update")
    /\ \E id \in int4in(b.userId) :
          IF id = InvalidText
          THEN Fail(r, 500, "Failed to update password.", "22P02") /\ UNCHANGED users
          ELSE /\ users' = {IF u.id = id THEN [u EXCEPT !.password = bcrypt_hash(b.newPassword, salt)] ELSE u :
                                u \in users}
               /\ Finish(r, 200, "Password updated successfully", NoOut)
    /\ UNCHANGED <<stores, ratings, userSeq, storeSeq, ratingSeq, now, issued, nreq, ledger, signedUp, ratingData, shown, authToken, currentUser, browser, discarded>>

----------------------------------------------------------------------------
(* POST /api/ratings *)

\* the handler with the rating validated before the self-scope check
RatingStartValidateFirst(auth, body) ==
    LET req == [auth |-> auth, body |-> body]
        st == authenticateToken(auth, now)
        user == auth.token.payload
        err == validate_rating(body.rating)
    IN
    /\ Arrive
    /\ IF st # 0 THEN Answer("rating", st, authenticateTokenMessage(auth, now), req, NoOut)
       ELSE IF err # "" THEN Answer("rating", 400, err, req, NoOut)
       ELSE IF ~isSelf(user, body.userId)
       THEN Answer("rating", 403, "You can only submit ratings as yourself", req, NoOut)
       ELSE IF body.storeId = 0 THEN Answer("rating", 400, "Store ID is required", req, NoOut)
       ELSE Await("rating", "upsert", user, req)
    /\ UNCHANGED <<users, stores, ratings, userSeq, storeSeq, ratingSeq, now, issued, ledger, signedUp, ratingData, shown, authToken, currentUser, browser, discarded>>

\* the route with requireUser behind authenticateToken
RatingStartRequireUser(auth, body) ==
    LET req == [auth |-> auth, body |-> body]
        st == authenticateToken(auth, now)
        user == auth.token.payload
        err == validate_rating(body.rating)
    IN
    /\ Arrive
    /\ IF st # 0 THEN Answer("rating", st, authenticateTokenMessage(auth, now), req, NoOut)
       ELSE IF requireUser(user) # 0 THEN Answer("rating", requireUser(user), "User access required", req, NoOut)
       ELSE IF ~isSelf(user, body.userId)
       THEN Answer("rating", 403, "You can only submit ratings as yourself", req, NoOut)
       ELSE IF err # "" THEN Answer("rating", 400, err, req, NoOut)
       ELSE IF body.storeId = 0 THEN Answer("rating", 400, "Store ID is required", req, NoOut)
       ELSE Await("rating", "upsert", user, req)
    /\ UNCHANGED <<users, stores, ratings, userSeq, storeSeq, ratingSeq, now, issued, ledger, signedUp, ratingData, shown, authToken, currentUser, browser, discarded>>

\* a rating request, from its arrival to the statement
RatingArrive(auth, body) ==
    LET req == [auth |-> auth, body |-> body]
        st == authenticateToken(auth, now)
        user == auth.token.payload
        err == validate_rating(body.rating)
    IN
    /\ Arrive
    /\ IF st # 0 THEN Answer("rating", st, authenticateTokenMessage(auth, now), req, NoOut)
       ELSE IF ~isSelf(user, body.userId)
       THEN Answer("rating", 403, "You can only submit ratings as yourself", req, NoOut)
       ELSE IF err # "" THEN Answer("rating", 400, err, req, NoOut)
       ELSE IF body.storeId = 0 THEN Answer("rating", 400, "Store ID is required", req, NoOut)
       ELSE Await("rating", "upsert", user, req)
    /\ UNCHANGED <<users, stores, ratings, userSeq, storeSeq, ratingSeq, now, issued, ledger, signedUp>>

RatingStart(auth, body) ==
    /\ RatingArrive(auth, body)
    /\ UNCHANGED <<ratingData, shown, authToken, currentUser, browser, discarded>>

\* the statement of a rating request and its answer
RatingAnswer(r) ==
    LET b == r.req.body
        code == RatingsUpsertError(b.userId, b.storeId, b.rating)
        value == b.rating.x10 \div 10
        rows == RatingsUpsert(b.userId, b.storeId, value)
    IN
    /\ r \in Waiting("rating", "upsert")
    /\ IF code # ""
       THEN /\ Fail(r, 500, "Failed to submit rating.", code)
            /\ UNCHANGED <<ratings, ratingSeq, ledger>>
       ELSE /\ ratings' = rows
            /\ ratingSeq' = IF Cardinality(rows) > Cardinality(ratings) THEN ratingSeq + 1 ELSE ratingSeq
            /\ ledger' = LedgerPut(b.userId, b.storeId, value, r.rid)
            /\ Finish(r, 201, "Rating submitted/updated successfully",
                      [ratingId |-> RatingIdOf(rows, b.userId, b.storeId)])
    /\ UNCHANGED <<users, stores, userSeq, storeSeq, now, issued, nreq, signedUp>>

\* the answer goes to a client other than the dashboard that waits for it
RatingUpsert(r) ==
    /\ r.rid # browser.rid
    /\ RatingAnswer(r)
    /\ UNCHANGED <<ratingData, shown, authToken, currentUser, browser, discarded>>

----------------------------------------------------------------------------
(* The clock *)

Tick ==
    /\ now < MaxNow
    /\ now' = now + 1
    /\ UNCHANGED <<users, stores, ratings, userSeq, storeSeq, ratingSeq, issued, pending, resp, nreq, ledger, signedUp, ratingData, shown, authToken, currentUser, browser, discarded>>


----------------------------------------------------------------------------
(* The browser (frontend main.js): the ratings it has loaded and the        *)
(* average it displays.  A Number is an IEEE-754 double: the quotient of    *)
(* two integers is the nearest double (ties to even), and toFixed(1) rounds *)
(* the exact value of that double to tenths, the larger on a tie.           *)

\* API.getRatings: the rows of GET /api/data/ratings under the browser's names
getRatings(rows) ==
    {[id |-> x.id, userId |-> x.user_id, storeId |-> x.store_id, rating |-> x.rating,
      userEmail |-> x.user_email] : x \in rows}

\* storeRatings.reduce((sum, r) => sum + r.rating, 0)
RECURSIVE reduce(_)
reduce(rows) ==
    IF rows = {} THEN 0
    ELSE LET r == CHOOSE x \in rows : TRUE IN r.rating + reduce(rows \ {r})

\* the binary expansion of r / n (0 <= r < n), k more bits of it: the
\* remainder left after them, and whether the last bit was 1
RECURSIVE Bits(_, _, _, _)
Bits(r, n, k, odd) ==
    IF k = 0 THEN [rem |-> r, odd |-> odd]
    ELSE Bits((2 * r) % n, n, k - 1, (2 * r) \div n = 1)

\* the sign of (the double nearest to s / n) - s / n, for 1 <= s / n < 8:
\* the 53-bit significand is the integer part and 52 - e bits of the fraction
DoubleError(s, n) ==
    LET int == s \div n
        e == IF int >= 4 THEN 2 ELSE IF int >= 2 THEN 1 ELSE 0
        b == Bits(s % n, n, 52 - e, int % 2 = 1)
    IN  IF b.rem = 0 THEN 0
        ELSE IF 2 * b.rem > n THEN 1
        ELSE IF 2 * b.rem < n THEN -1
        ELSE IF b.odd THEN 1 ELSE -1

\* the decimal string of t tenths, 0 <= t < 100
Tenths(t) == <<DigitChars[(t \div 10) + 1], ".", DigitChars[(t % 10) + 1]>>

\* a toFixed that cuts the digits after the first decimal
toFixedTruncate(s, n) == Tenths((10 * s) \div n)

\* (s / n).toFixed(1)
toFixed(s, n) ==
    LET a == (10 * s) \div n
        b == (10 * s) % n
        up == 2 * b > n \/ (2 * b = n /\ DoubleError(s, n) >= 0)
    IN  Tenths(IF up THEN a + 1 ELSE a)

\* the division without the test for an empty list: 0 / 0 is NaN
AverageUnguarded(storeRatings) ==
    IF Cardinality(storeRatings) = 0 THEN <<"N", "a", "N">>
    ELSE toFixed(reduce(storeRatings), Cardinality(storeRatings))

\* the body the three displays share
Average(storeRatings) ==
    IF Cardinality(storeRatings) = 0 THEN <<"0", ".", "0">>
    ELSE toFixed(reduce(storeRatings), Cardinality(storeRatings))

\* the admin dashboard
getStoreRating(storeId) == Average({r \in ratingData : r.storeId = storeId})

\* the user dashboard
getOverallRating(storeId) == Average({r \in ratingData : r.storeId = storeId})

\* the owner dashboard, for the store of the owner
averageRating(storeId) == Average({r \in ratingData : r.storeId = storeId})

NoShown == [who |-> "none", storeId |-> 0, text |-> <<>>]

\* App before a login: no current user, the login screen
NoUser == [id |-> 0, role |-> "none", storeId |-> 0]
AtLogin == [pc |-> "login", op |-> "none", rid |-> 0]

\* the list loadData asks for after list op: users (admin only), stores, ratings
NextList(op) == IF op = "getUsers" THEN "getStores" ELSE "getRatings"

\* handleLogin / handleSignup: API.login has stored the token of the answer,
\* App shows the dashboard of the user, and its effect calls loadData
handleLogin ==
    /\ browser.pc = "login"
    /\ resp.op \in {"login", "signup"} /\ resp.status \in {200, 201}
    /\ authToken' = resp.out.token
    /\ currentUser' = [id |-> resp.out.user.id, role |-> resp.out.user.role, storeId |-> resp.out.storeId]
    /\ browser' = [pc |-> "send", op |-> IF resp.out.user.role = "admin" THEN "getUsers" ELSE "getStores",
                   rid |-> 0]
    /\ ratingData' = {}
    /\ UNCHANGED <<users, stores, ratings, userSeq, storeSeq, ratingSeq, now, issued, pending, resp, nreq,
                   ledger, signedUp, shown, discarded>>

\* loadData, up to an await: apiCall sends the next list request with the
\* token; on an answer that is not ok apiCall throws and loadData ends
LoadDataSend ==
    /\ browser.pc = "send"
    /\ GetArrive(browser.op, Bearer(authToken))
    /\ browser' = IF authenticateToken(Bearer(authToken), now) # 0
                  THEN [pc |-> "idle", op |-> "none", rid |-> 0]
                  ELSE [pc |-> "wait", op |-> browser.op, rid |-> nreq + 1]
    /\ UNCHANGED <<ratingData, shown, authToken, currentUser, discarded>>

\* loadData, from an await on: the list arrives; after the last one,
\* setRatings(ratingData)
LoadData ==
    /\ browser.pc = "wait"
    /\ \E r \in pending : r.rid = browser.rid /\ GetAnswer(r)
    /\ IF browser.op = "getRatings"
       THEN /\ ratingData' = getRatings(resp'.out.rows)
            /\ browser' = [pc |-> "idle", op |-> "none", rid |-> 0]
       ELSE /\ browser' = [pc |-> "send", op |-> NextList(browser.op), rid |-> 0]
            /\ UNCHANGED ratingData
    /\ UNCHANGED <<shown, authToken, currentUser, discarded>>

\* handleSubmitRating of the user dashboard: validate.rating, then
\* API.submitRating(user.id, storeId, ratingValue)
handleSubmitRating(storeId, rating) ==
    LET auth == Bearer(authToken)
        body == [userId |-> currentUser.id, storeId |-> storeId, rating |-> rating]
    IN
    /\ browser.pc = "idle" /\ currentUser.role = "user"
    /\ validate_rating(rating) = ""
    /\ RatingArrive(auth, body)
    /\ browser' = IF authenticateToken(auth, now) # 0 \/ ~isSelf(auth.token.payload, body.userId) \/ storeId = 0
                  THEN [pc |-> "idle", op |-> "none", rid |-> 0]
                  ELSE [pc |-> "wait", op |-> "rating", rid |-> nreq + 1]
    /\ UNCHANGED <<ratingData, shown, authToken, currentUser, discarded>>

\* handleSubmitRating after its await: on success loadData again, else the catch
SubmitDone ==
    /\ browser.pc = "wait"
    /\ \E r \in pending : r.rid = browser.rid /\ RatingAnswer(r)
    /\ browser' = IF resp'.status = 201 THEN [pc |-> "send", op |-> "getStores", rid |-> 0]
                  ELSE [pc |-> "idle", op |-> "none", rid |-> 0]
    /\ UNCHANGED <<ratingData, shown, authToken, currentUser, discarded>>

\* handleLogout: API.logout() drops the token, App goes back to the login screen
handleLogout ==
    /\ currentUser # NoUser
    /\ authToken' = NoToken
    /\ currentUser' = NoUser
    /\ browser' = AtLogin
    /\ discarded' = discarded \cup {[token |-> authToken, at |-> nreq]}
    /\ UNCHANGED <<users, stores, ratings, userSeq, storeSeq, ratingSeq, now, issued, pending, resp, nreq,
                   ledger, signedUp, ratingData, shown>>

\* one of the dashboards renders the average of a store
Render(who, storeId) ==
    /\ shown' = [who |-> who, storeId |-> storeId,
                 text |-> IF who = "admin" THEN getStoreRating(storeId)
                          ELSE IF who = "user" THEN getOverallRating(storeId)
                          ELSE averageRating(storeId)]
    /\ UNCHANGED <<users, stores, ratings, userSeq, storeSeq, ratingSeq, now, issued, pending, resp, nreq,
                   ledger, signedUp, ratingData, authToken, currentUser, browser, discarded>>

----------------------------------------------------------------------------
(* What clients send *)

\* a token of the server with its role changed, under the old signature
Tampered(token) == [payload |-> [token.payload EXCEPT !.role = "admin"], sig |-> token.sig]

\* a token signed by someone who does not know the secret
SelfSigned ==
    LET payload == [id |-> 1, email |-> AdminEmail, role |-> "admin", iat |-> 0, exp |-> MaxNow + TokenTTL]
    IN  [payload |-> payload, sig |-> Signature(payload, "guess")]

Auths == {NoAuth, MalformedAuth, Bearer(SelfSigned)}
            \cup {Bearer(t) : t \in issued} \cup {Bearer(Tampered(t)) : t \in issued}

LoginEmails == {AdminEmail, JaneEmail, MegaOwnerEmail, NewEmail, Missing}
LoginPasswords == {AdminPw, UserPw, StorePw, ValidPw, Missing}

AccountBase == [name |-> 20, email |-> NewEmail, address |-> 10, password |-> ValidPw, role |-> "user"]

AccountBodies ==
    {AccountBase}
        \cup {[AccountBase EXCEPT !.name = n] : n \in {19, 61}}
        \cup {[AccountBase EXCEPT !.email = e] : e \in {JaneEmail, NoDotEmail}}
        \cup {[AccountBase EXCEPT !.address = a] : a \in {0, 401}}
        \cup {[AccountBase EXCEPT !.password = p] : p \in {ShortPw, LowerPw}}
        \cup {[AccountBase EXCEPT !.role = x] : x \in {"admin", "store_owner"}}
        \cup {[name |-> 19, email |-> NoDotEmail, address |-> 0, password |-> ShortPw, role |-> "none"]}

StoreBase == [name |-> 20, email |-> NewEmail, address |-> 10]

StoreBodies ==
    {StoreBase}
        \cup {[StoreBase EXCEPT !.name = n] : n \in {19, 55}}
        \cup {[StoreBase EXCEPT !.email = e] : e \in {JaneEmail, MegaStoreEmail, NoDotEmail}}
        \cup {[StoreBase EXCEPT !.address = a] : a \in {401}}

RatingValues == {[kind |-> "num", x10 |-> 10], [kind |-> "num", x10 |-> 25], [kind |-> "num", x10 |-> 40],
                 [kind |-> "num", x10 |-> 60], [kind |-> "nan", x10 |-> 0]}

RatingBodies == [userId : {2, 3}, storeId : {0, 1, 9}, rating : RatingValues]

\* the userId of the path: users 1 and 2, no user, no number, and 2_5
PasswordTargets == {<<"1">>, <<"2">>, <<"9", "9">>, <<"x">>, <<"2", "_", "5">>}
NewPasswords == {ValidPw, ShortPw}

----------------------------------------------------------------------------
(* The system *)

Init ==
    /\ users = SeedUsers
    /\ stores = SeedStores
    /\ ratings = SeedRatings
    /\ userSeq = 7
    /\ storeSeq = 3
    /\ ratingSeq = 5
    /\ now = 0
    /\ issued = {}
    /\ pending = {}
    /\ resp = NoResp
    /\ nreq = 0
    /\ ledger = {[user_id |-> x.user_id, store_id |-> x.store_id, rating |-> x.rating, rid |-> 0,
                   prev |-> 0, prevRid |-> 0] : x \in SeedRatings}
    /\ signedUp = {}
    /\ ratingData = {}
    /\ shown = NoShown
    /\ authToken = NoToken
    /\ currentUser = NoUser
    /\ browser = AtLogin
    /\ discarded = {}

Login ==
    \/ \E e \in LoginEmails, p \in LoginPasswords : LoginStart(e, p)
    \/ \E r \in pending : LoginSelectUser(r)
    \/ \E r \in pending : LoginSelectStore(r)

Signup ==
    \/ \E b \in AccountBodies : SignupStart(b)
    \/ \E r \in pending : SignupSelect(r)
    \/ \E r \in pending, salt \in Salts : SignupInsert(r, salt)

GetData ==
    \/ \E op \in {"getUsers", "getStores", "getRatings"}, a \in Auths : GetStart(op, a)
    \/ \E r \in pending : GetSelect(r)

AddUser ==
    \/ \E a \in Auths, b \in AccountBodies : AddUserStart(a, b)
    \/ \E r \in pending : AddUserSelect(r)
    \/ \E r \in pending, salt \in Salts : AddUserInsert(r, salt)

AddStore ==
    \/ \E a \in Auths, b \in StoreBodies : AddStoreStart(a, b)
    \/ \E r \in pending, salt \in Salts : AddStoreInsertOwner(r, salt)
    \/ \E r \in pending : AddStoreInsertStore(r)
    \/ \E r \in pending : AddStoreCommit(r)
    \/ \E r \in pending : AddStoreStorageError(r)

Password ==
    \/ \E a \in Auths, id \in PasswordTargets, p \in NewPasswords : PasswordStart(a, id, p)
    \/ \E r \in pending, salt \in Salts : PasswordUpdate(r, salt)

Rating ==
    \/ \E a \in Auths, b \in RatingBodies : RatingStart(a, b)
    \/ \E r \in pending : RatingUpsert(r)

Browser ==
    \/ handleLogin
    \/ LoadDataSend
    \/ LoadData
    \/ \E s \in {1, 2, 9}, v \in RatingValues : handleSubmitRating(s, v)
    \/ SubmitDone
    \/ handleLogout
    \/ \E who \in {"admin", "user", "owner"}, s \in {1, 2, 9} : Render(who, s)

Next == Login \/ Signup \/ GetData \/ AddUser \/ AddStore \/ Password \/ Rating \/ Browser

Spec == Init /\ [][Next]_vars


----------------------------------------------------------------------------
(* The rating ledger: logins of a user, an owner and the admin, and rating  *)
(* submissions by whoever holds a token.                                    *)

LedgerLogins == {<<JaneEmail, UserPw>>, <<MegaOwnerEmail, StorePw>>, <<JaneEmail, StorePw>>}

LedgerNext ==
    \/ \E c \in LedgerLogins : LoginStart(c[1], c[2])
    \/ \E r \in pending : LoginSelectUser(r)
    \/ \E r \in pending : LoginSelectStore(r)
    \/ \E a \in Auths, b \in RatingBodies : RatingStart(a, b)
    \/ \E r \in pending : RatingUpsert(r)

SpecLedger == Init /\ [][LedgerNext]_vars

(* Accounts: signup, login, and account creation by an admin *)

AccountLogins == {<<AdminEmail, AdminPw>>, <<NewEmail, ValidPw>>, <<NewEmail, UserPw>>, <<JaneEmail, ValidPw>>}

AccountsNext ==
    \/ \E c \in AccountLogins : LoginStart(c[1], c[2])
    \/ \E r \in pending : LoginSelectUser(r)
    \/ Signup
    \/ AddUser

SpecAccounts == Init /\ [][AccountsNext]_vars

(* Administration: the two admin-only creations, called by an admin, a     *)
(* user and a store owner                                                  *)

AdminLogins == {<<AdminEmail, AdminPw>>, <<JaneEmail, UserPw>>, <<MegaOwnerEmail, StorePw>>}

AdminNext ==
    \/ \E c \in AdminLogins : LoginStart(c[1], c[2])
    \/ \E r \in pending : LoginSelectUser(r)
    \/ \E r \in pending : LoginSelectStore(r)
    \/ AddUser
    \/ AddStore

SpecAdmin == Init /\ [][AdminNext]_vars

(* The gate over time: tokens are issued, the clock advances, and tokens    *)
(* are presented to the read endpoints.                                     *)

GateLogins == {<<JaneEmail, UserPw>>, <<Missing, UserPw>>}

GateNext ==
    \/ \E c \in GateLogins : LoginStart(c[1], c[2])
    \/ \E r \in pending : LoginSelectUser(r)
    \/ \E a \in Auths : GetStart("getStores", a)
    \/ \E r \in pending : GetSelect(r)
    \/ Tick

SpecGate == Init /\ [][GateNext]_vars


(* Roles: every way an account is made (signup, the admin's createUser and  *)
(* the admin's createStoreWithOwner), with every role a body can ask for    *)

RoleBodies ==
    {[AccountBase EXCEPT !.role = x, !.email = e] :
        x \in {"admin", "user", "store_owner", "none"}, e \in {NewEmail, OtherEmail}}

RoleStoreBodies == {StoreBase}

RolesNext ==
    \/ LoginStart(AdminEmail, AdminPw)
    \/ \E r \in pending : LoginSelectUser(r)
    \/ \E b \in RoleBodies : SignupStart(b)
    \/ \E r \in pending : SignupSelect(r)
    \/ \E r \in pending, salt \in Salts : SignupInsert(r, salt)
    \/ \E t \in issued, b \in RoleBodies : AddUserStart(Bearer(t), b)
    \/ \E r \in pending : AddUserSelect(r)
    \/ \E r \in pending, salt \in Salts : AddUserInsert(r, salt)
    \/ \E t \in issued, b \in RoleStoreBodies : AddStoreStart(Bearer(t), b)
    \/ \E r \in pending, salt \in Salts : AddStoreInsertOwner(r, salt)
    \/ \E r \in pending : AddStoreInsertStore(r)
    \/ \E r \in pending : AddStoreCommit(r)

SpecRoles == Init /\ [][RolesNext]_vars

(* Credentials: the three operations that store a password, each called     *)
(* with passwords on both sides of every rule of the validator              *)

CredentialPasswords ==
    {ValidPw, UserPw, SixteenPw, ShortPw, SevenPw, LowerPw, NoSpecialPw, SeventeenPw, Missing}

CredentialBodies == {[AccountBase EXCEPT !.password = p] : p \in CredentialPasswords}

CredentialLogins == {<<AdminEmail, AdminPw>>, <<JaneEmail, UserPw>>}

CredentialsNext ==
    \/ \E c \in CredentialLogins : LoginStart(c[1], c[2])
    \/ \E r \in pending : LoginSelectUser(r)
    \/ \E b \in CredentialBodies : SignupStart(b)
    \/ \E r \in pending : SignupSelect(r)
    \/ \E r \in pending, salt \in Salts : SignupInsert(r, salt)
    \/ \E t \in issued, b \in CredentialBodies : AddUserStart(Bearer(t), b)
    \/ \E r \in pending : AddUserSelect(r)
    \/ \E r \in pending, salt \in Salts : AddUserInsert(r, salt)
    \/ \E t \in issued, p \in CredentialPasswords : PasswordStart(Bearer(t), <<"2">>, p)
    \/ \E r \in pending, salt \in Salts : PasswordUpdate(r, salt)

SpecCredentials == Init /\ [][CredentialsNext]_vars

(* Signup alone, with every combination of a valid and an invalid value of  *)
(* each field                                                               *)

SignupBodies ==
    [name : {19, 20}, email : {NewEmail, JaneEmail, NoDotEmail}, address : {10, 0},
     password : {ValidPw, ShortPw}, role : {"user"}]

SignupNext ==
    \/ \E b \in SignupBodies : SignupStart(b)
    \/ \E r \in pending : SignupSelect(r)
    \/ \E r \in pending, salt \in Salts : SignupInsert(r, salt)

SpecSignup == Init /\ [][SignupNext]_vars

(* Login alone: emails of users and of nobody, passwords right and wrong    *)

OnlyLogins == {JaneEmail, MegaOwnerEmail, NewEmail, Missing} \X {UserPw, StorePw, ValidPw, NumberPw, Missing}

LoginNext ==
    \/ \E c \in OnlyLogins : LoginStart(c[1], c[2])
    \/ \E r \in pending : LoginSelectUser(r)
    \/ \E r \in pending : LoginSelectStore(r)

SpecLogin == Init /\ [][LoginNext]_vars

(* Aggregation: a database in which up to MaxRatings users have rated the   *)
(* first store, the browser having loaded its ratings, and the dashboards   *)
(* rendering averages.                                                      *)

\* a user who signed up after the seed
AggUser(i) ==
    [id |-> i, name |-> 20, address |-> 10, role |-> "user", password |-> SeedHash(UserPw),
     email |-> <<"u", DigitChars[(i \div 10) + 1], DigitChars[(i % 10) + 1], "@", "x", ".", "i", "o">>]

\* the k-th rater of the first store: Jane, Alice, Bob, then the users who signed up
AggRater(k) == IF k = 1 THEN 2 ELSE IF k = 2 THEN 5 ELSE IF k = 3 THEN 6 ELSE k + 3

\* n ratings of sum s, as even as they can be: s % n of them one above the rest
AggEven(n, s) ==
    [v \in 1..5 |-> IF v = s \div n THEN n - (s % n) ELSE IF v = (s \div n) + 1 THEN s % n ELSE 0]

\* how many of the raters give 1, 2, 3, 4 and 5: every mix of up to MaxMixed
\* ratings, and every sum of up to MaxRatings ratings
AggCounts ==
    {c \in [1..5 -> 0..MaxMixed] : c[1] + c[2] + c[3] + c[4] + c[5] <= MaxMixed}
        \cup {AggEven(n[1], n[2]) : n \in {p \in (1..MaxRatings) \X (1..(5 * MaxRatings)) :
                                              p[1] <= p[2] /\ p[2] <= 5 * p[1]}}

\* the value the k-th rater gives under counts c: the 1s first, then the 2s, ...
AggValue(c, k) ==
    IF k <= c[1] THEN 1
    ELSE IF k <= c[1] + c[2] THEN 2
    ELSE IF k <= c[1] + c[2] + c[3] THEN 3
    ELSE IF k <= c[1] + c[2] + c[3] + c[4] THEN 4
    ELSE 5

AggRatings(c) ==
    {[id |-> k, user_id |-> AggRater(k), store_id |-> 1, rating |-> AggValue(c, k)] :
        k \in 1..(c[1] + c[2] + c[3] + c[4] + c[5])}
      \cup {[id |-> MaxRatings + 1, user_id |-> 6, store_id |-> 2, rating |-> 5],
            [id |-> MaxRatings + 2, user_id |-> 2, store_id |-> 2, rating |-> 3]}

AggInit ==
    \E c \in AggCounts :
        LET n == c[1] + c[2] + c[3] + c[4] + c[5] IN
        /\ users = SeedUsers \cup {AggUser(i) : i \in 7..(n + 3)}
        /\ stores = SeedStores
        /\ ratings = AggRatings(c)
        /\ userSeq = IF n > 3 THEN n + 4 ELSE 7
        /\ storeSeq = 3
        /\ ratingSeq = MaxRatings + 3
        /\ now = 0
        /\ issued = {}
        /\ pending = {}
        /\ resp = NoResp
        /\ nreq = 0
        /\ ledger = {[user_id |-> x.user_id, store_id |-> x.store_id, rating |-> x.rating, rid |-> 0,
                       prev |-> 0, prevRid |-> 0] : x \in AggRatings(c)}
        /\ signedUp = {}
        /\ ratingData = getRatings(GetRatingsRows)
        /\ shown = NoShown
        /\ authToken = NoToken
        /\ currentUser = NoUser
        /\ browser = AtLogin
        /\ discarded = {}

AggStores == {1, 2, 9}

AggNext == \E who \in {"admin", "user", "owner"}, s \in AggStores : Render(who, s)

SpecAggregate == AggInit /\ [][AggNext]_vars


(* Passwords: a database in which users up to id MaxUsers have signed up,   *)
(* logins of the admin and of a user, and password updates                  *)

PasswordInit ==
    /\ users = SeedUsers \cup {AggUser(i) : i \in 7..MaxUsers}
    /\ stores = SeedStores
    /\ ratings = SeedRatings
    /\ userSeq = MaxUsers + 1
    /\ storeSeq = 3
    /\ ratingSeq = 5
    /\ now = 0
    /\ issued = {}
    /\ pending = {}
    /\ resp = NoResp
    /\ nreq = 0
    /\ ledger = {[user_id |-> x.user_id, store_id |-> x.store_id, rating |-> x.rating, rid |-> 0,
                   prev |-> 0, prevRid |-> 0] : x \in SeedRatings}
    /\ signedUp = {}
    /\ ratingData = {}
    /\ shown = NoShown
    /\ authToken = NoToken
    /\ currentUser = NoUser
    /\ browser = AtLogin
    /\ discarded = {}

PasswordLogins == {<<AdminEmail, AdminPw>>, <<JaneEmail, UserPw>>, <<JaneEmail, ValidPw>>}

PasswordNext ==
    \/ \E c \in PasswordLogins : LoginStart(c[1], c[2])
    \/ \E r \in pending : LoginSelectUser(r)
    \/ Password

SpecPassword == PasswordInit /\ [][PasswordNext]_vars

(* Secrets: every endpoint that answers with user data or stores a          *)
(* password, called by the admin, a store owner and a new user              *)

SecretLogins == {<<AdminEmail, AdminPw>>, <<MegaOwnerEmail, StorePw>>, <<NewEmail, ValidPw>>}

SecretTargets == {<<"1">>, <<"7">>}

SecretsNext ==
    \/ \E c \in SecretLogins : LoginStart(c[1], c[2])
    \/ \E r \in pending : LoginSelectUser(r)
    \/ \E r \in pending : LoginSelectStore(r)
    \/ SignupStart(AccountBase)
    \/ \E r \in pending : SignupSelect(r)
    \/ \E r \in pending, salt \in Salts : SignupInsert(r, salt)
    \/ \E op \in {"getUsers", "getStores", "getRatings"}, t \in issued : GetStart(op, Bearer(t))
    \/ \E r \in pending : GetSelect(r)
    \/ \E t \in issued : AddUserStart(Bearer(t), [AccountBase EXCEPT !.email = OtherEmail])
    \/ \E r \in pending : AddUserSelect(r)
    \/ \E r \in pending, salt \in Salts : AddUserInsert(r, salt)
    \/ \E t \in issued : AddStoreStart(Bearer(t), [StoreBase EXCEPT !.email = OtherEmail])
    \/ \E r \in pending, salt \in Salts : AddStoreInsertOwner(r, salt)
    \/ \E r \in pending : AddStoreInsertStore(r)
    \/ \E r \in pending : AddStoreCommit(r)
    \/ \E t \in issued, id \in SecretTargets : PasswordStart(Bearer(t), id, UserPw)
    \/ \E r \in pending, salt \in Salts : PasswordUpdate(r, salt)

SpecSecrets == Init /\ [][SecretsNext]_vars

(* The order of checks: the four protected operations that write, called    *)
(* with every kind of Authorization header and with valid and invalid       *)
(* payloads                                                                 *)

\* a body in which every field is invalid
AccountBad == [name |-> 19, email |-> NoDotEmail, address |-> 0, password |-> ShortPw, role |-> "none"]

OrderNext ==
    \/ \E c \in {<<AdminEmail, AdminPw>>, <<JaneEmail, UserPw>>} : LoginStart(c[1], c[2])
    \/ \E r \in pending : LoginSelectUser(r)
    \/ \E a \in Auths, b \in {AccountBase, AccountBad, [AccountBase EXCEPT !.role = "none"]} : AddUserStart(a, b)
    \/ \E r \in pending : AddUserSelect(r)
    \/ \E r \in pending, salt \in Salts : AddUserInsert(r, salt)
    \/ \E a \in Auths, b \in {StoreBase, [StoreBase EXCEPT !.name = 19]} : AddStoreStart(a, b)
    \/ \E r \in pending, salt \in Salts : AddStoreInsertOwner(r, salt)
    \/ \E r \in pending : AddStoreInsertStore(r)
    \/ \E r \in pending : AddStoreCommit(r)
    \/ \E a \in Auths, id \in {<<"1">>, <<"2">>}, p \in NewPasswords : PasswordStart(a, id, p)
    \/ \E r \in pending, salt \in Salts : PasswordUpdate(r, salt)
    \/ \E a \in Auths, b \in [userId : {2, 3}, storeId : {0, 1}, rating : {[kind |-> "num", x10 |-> 40], [kind |-> "nan", x10 |-> 0]}] :
            RatingStart(a, b)
    \/ \E r \in pending : RatingUpsert(r)

SpecOrder == Init /\ [][OrderNext]_vars

(* Sessions: a user logs in, the browser keeps the token and drops it at     *)
(* logout, the password of the user is changed, the first hours of the      *)
(* token pass, and whoever holds a token presents it to the protected       *)
(* operations                                                               *)

SessionNext ==
    \/ LoginStart(JaneEmail, UserPw)
    \/ \E r \in pending : LoginSelectUser(r)
    \/ handleLogin
    \/ LoadDataSend
    \/ LoadData
    \/ handleLogout
    \/ \E t \in issued : PasswordStart(Bearer(t), <<"2">>, ValidPw)
    \/ \E r \in pending, salt \in Salts : PasswordUpdate(r, salt)
    \/ \E t \in issued, op \in {"getUsers", "getStores", "getRatings"} : GetStart(op, Bearer(t))
    \/ \E r \in pending : GetSelect(r)
    \/ \E t \in issued : RatingStart(Bearer(t), [userId |-> 2, storeId |-> 1, rating |-> [kind |-> "num", x10 |-> 40]])
    \/ \E r \in pending : RatingUpsert(r)
    \/ (now < MaxSessionHours /\ Tick)

SpecSession == Init /\ [][SessionNext]_vars

(* Open dashboards: the dashboard of the first store's owner, or of a user, *)
(* is open and has loaded the ratings; ratings are submitted from it and by *)
(* other clients.  The steps that happen by themselves (a storage call      *)
(* returning, loadData going on after an await) are fair; what a person     *)
(* does (logging in, submitting, logging out) is not.                       *)

SeedUser(id) == CHOOSE u \in SeedUsers : u.id = id

LiveInit ==
    \E viewer \in {2, 3} :
        /\ users = SeedUsers
        /\ stores = SeedStores
        /\ ratings = SeedRatings
        /\ userSeq = 7
        /\ storeSeq = 3
        /\ ratingSeq = 5
        /\ now = 0
        /\ issued = {jwt_sign(SeedUser(2), 0), jwt_sign(SeedUser(3), 0)}
        /\ pending = {}
        /\ resp = NoResp
        /\ nreq = 0
        /\ ledger = {[user_id |-> x.user_id, store_id |-> x.store_id, rating |-> x.rating, rid |-> 0,
                       prev |-> 0, prevRid |-> 0] : x \in SeedRatings}
        /\ signedUp = {}
        /\ ratingData = getRatings(GetRatingsRows)
        /\ shown = NoShown
        /\ authToken = jwt_sign(SeedUser(viewer), 0)
        /\ currentUser = [id |-> viewer, role |-> SeedUser(viewer).role, storeId |-> StoreIdOfOwner(SeedUser(viewer))]
        /\ browser = [pc |-> "idle", op |-> "none", rid |-> 0]
        /\ discarded = {}

LiveRatings == {[kind |-> "num", x10 |-> 10], [kind |-> "num", x10 |-> 40]}

LiveNext ==
    \/ \E t \in issued, v \in LiveRatings :
            RatingStart(Bearer(t), [userId |-> t.payload.id, storeId |-> 1, rating |-> v])
    \/ \E r \in pending : RatingUpsert(r)
    \/ LoginStart(MegaOwnerEmail, StorePw)
    \/ \E r \in pending : LoginSelectUser(r)
    \/ \E r \in pending : LoginSelectStore(r)
    \/ handleLogin
    \/ LoadDataSend
    \/ LoadData
    \/ \E v \in LiveRatings : handleSubmitRating(1, v)
    \/ SubmitDone
    \/ handleLogout

SpecLive ==
    /\ LiveInit /\ [][LiveNext]_vars
    /\ WF_vars(\E r \in pending : RatingUpsert(r))
    /\ WF_vars(\E r \in pending : LoginSelectUser(r))
    /\ WF_vars(\E r \in pending : LoginSelectStore(r))
    /\ WF_vars(LoadDataSend)
    /\ WF_vars(LoadData)
    /\ WF_vars(SubmitDone)

(* Integrity: stores are created with their owners, and ratings are         *)
(* submitted for the seeded store, for the store being created and for no   *)
(* store                                                                    *)

IntegrityNext ==
    \/ \E c \in {<<AdminEmail, AdminPw>>, <<JaneEmail, UserPw>>} : LoginStart(c[1], c[2])
    \/ \E r \in pending : LoginSelectUser(r)
    \/ \E t \in issued : AddStoreStart(Bearer(t), StoreBase)
    \/ \E r \in pending, salt \in Salts : AddStoreInsertOwner(r, salt)
    \/ \E r \in pending : AddStoreInsertStore(r)
    \/ \E r \in pending : AddStoreCommit(r)
    \/ \E r \in pending : AddStoreStorageError(r)
    \/ \E t \in issued, s \in {1, 3, 9} :
            RatingStart(Bearer(t), [userId |-> t.payload.id, storeId |-> s, rating |-> [kind |-> "num", x10 |-> 40]])
    \/ \E r \in pending : RatingUpsert(r)

SpecIntegrity == Init /\ [][IntegrityNext]_vars

(* Owners: the admin creates a store with its owner and asks for accounts   *)
(* of every role, while the new owner logs in and the lists are read        *)

OwnersNext ==
    \/ \E c \in {<<AdminEmail, AdminPw>>, <<NewEmail, StorePw>>} : LoginStart(c[1], c[2])
    \/ \E r \in pending : LoginSelectUser(r)
    \/ \E r \in pending : LoginSelectStore(r)
    \/ \E t \in issued : AddStoreStart(Bearer(t), StoreBase)
    \/ \E r \in pending, salt \in Salts : AddStoreInsertOwner(r, salt)
    \/ \E r \in pending : AddStoreInsertStore(r)
    \/ \E r \in pending : AddStoreCommit(r)
    \/ \E r \in pending : AddStoreStorageError(r)
    \/ \E t \in issued, x \in {"user", "store_owner"} :
            AddUserStart(Bearer(t), [AccountBase EXCEPT !.role = x, !.email = OtherEmail])
    \/ \E r \in pending : AddUserSelect(r)
    \/ \E r \in pending, salt \in Salts : AddUserInsert(r, salt)
    \/ \E t \in issued, op \in {"getUsers", "getStores"} : GetStart(op, Bearer(t))
    \/ \E r \in pending : GetSelect(r)

SpecOwners == Init /\ [][OwnersNext]_vars

(* Errors: every operation, called so that it succeeds and so that it fails *)
(* at each of its checks and at each of its statements                      *)

ErrorAuths == {NoAuth, Bearer(SelfSigned)} \cup {Bearer(t) : t \in issued}

ErrorsNext ==
    \/ \E c \in {<<AdminEmail, AdminPw>>, <<JaneEmail, UserPw>>, <<JaneEmail, StorePw>>} : LoginStart(c[1], c[2])
    \/ \E r \in pending : LoginSelectUser(r)
    \/ \E b \in {AccountBase, [AccountBase EXCEPT !.name = 19]} : SignupStart(b)
    \/ \E r \in pending : SignupSelect(r)
    \/ \E r \in pending, salt \in Salts : SignupInsert(r, salt)
    \/ \E a \in ErrorAuths, op \in {"getUsers", "getStores", "getRatings"} : GetStart(op, a)
    \/ \E r \in pending : GetSelect(r)
    \/ \E a \in ErrorAuths : AddUserStart(a, AccountBase)
    \/ \E r \in pending : AddUserSelect(r)
    \/ \E r \in pending, salt \in Salts : AddUserInsert(r, salt)
    \/ \E a \in ErrorAuths, b \in {StoreBase, [StoreBase EXCEPT !.name = 55],
                                     [StoreBase EXCEPT !.email = MegaStoreEmail],
                                     [StoreBase EXCEPT !.email = JaneEmail]} : AddStoreStart(a, b)
    \/ \E r \in pending, salt \in Salts : AddStoreInsertOwner(r, salt)
    \/ \E r \in pending : AddStoreInsertStore(r)
    \/ \E r \in pending : AddStoreCommit(r)
    \/ \E r \in pending : AddStoreStorageError(r)
    \/ \E a \in ErrorAuths, id \in {<<"2">>, <<"x">>}, p \in NewPasswords : PasswordStart(a, id, p)
    \/ \E r \in pending, salt \in Salts : PasswordUpdate(r, salt)
    \/ \E a \in ErrorAuths, s \in {1, 9}, v \in {[kind |-> "num", x10 |-> 40], [kind |-> "num", x10 |-> 25]} :
            RatingStart(a, [userId |-> 2, storeId |-> s, rating |-> v])
    \/ \E r \in pending : RatingUpsert(r)

SpecErrors == Init /\ [][ErrorsNext]_vars

(* Ratings by every role: the admin, a store owner and a user log in and    *)
(* submit ratings for the first store, and the ratings are listed           *)

AnyRoleNext ==
    \/ \E c \in {<<AdminEmail, AdminPw>>, <<MegaOwnerEmail, StorePw>>, <<JaneEmail, UserPw>>} : LoginStart(c[1], c[2])
    \/ \E r \in pending : LoginSelectUser(r)
    \/ \E r \in pending : LoginSelectStore(r)
    \/ \E t \in issued, u \in {1, 2, 3}, v \in {[kind |-> "num", x10 |-> 10], [kind |-> "num", x10 |-> 40]} :
            RatingStart(Bearer(t), [userId |-> u, storeId |-> 1, rating |-> v])
    \/ \E r \in pending : RatingUpsert(r)
    \/ \E t \in issued : GetStart("getRatings", Bearer(t))
    \/ \E r \in pending : GetSelect(r)

SpecAnyRole == Init /\ [][AnyRoleNext]_vars

----------------------------------------------------------------------------
(* Properties *)

\* this step sends a response
Responds == resp'.rid # resp.rid

\* this step receives a request, and ArrivedAccepted when it goes on to storage
Arrives == nreq' = nreq + 1
ArrivedAccepted == \E r \in pending' : r.rid = nreq'
ArrivedReq == IF ArrivedAccepted THEN (CHOOSE r \in pending' : r.rid = nreq').req ELSE resp'.req
ArrivedOp == IF ArrivedAccepted THEN (CHOOSE r \in pending' : r.rid = nreq').op ELSE resp'.op

RowsOf(rows, user_id, store_id) == {x \in rows : x.user_id = user_id /\ x.store_id = store_id}

GatePasses(auth) == authenticateToken(auth, now) = 0

\* C1: in every reachable state the ratings table holds at most one row per
\* (user_id, store_id) pair.
C1_OneRowPerPair ==
    \A x \in ratings, y \in ratings :
        (x.user_id = y.user_id /\ x.store_id = y.store_id) => x = y

\* a submission has hit the row of the seed data for its pair
C1_Witness ==
    /\ resp.op = "rating" /\ resp.status = 201
    /\ \E e \in ledger : e.rid = resp.rid /\ e.prevRid = 0 /\ e.prev # 0
    /\ \E r \in pending : r.op = "rating"
\* the step of C2: what one step of the system must satisfy
C2_UpsertStep ==
    (Responds /\ resp'.op = "rating" /\ resp'.status = 201) =>
        LET b == resp'.req.body
            v == b.rating.x10 \div 10
            old == RowsOf(ratings, b.userId, b.storeId)
            new == RowsOf(ratings', b.userId, b.storeId)
        IN  /\ Cardinality(new) = 1
            /\ \A x \in new : x.rating = v /\ x.id = resp'.out.ratingId
            /\ IF old = {}
               THEN ratings' = ratings \cup new
               ELSE \E o \in old : ratings' = (ratings \ {o}) \cup {[o EXCEPT !.rating = v]}

\* C2: a successful submitRating leaves exactly one row for its (user, store)
\* pair, holding the value of that call; the first call for a pair inserts the
\* row, and every later call overwrites the value of that row in place, every
\* other row staying as it was.
C2_LastCallWins == [][C2_UpsertStep]_vars

\* the same user has submitted twice for a store, one call after the other,
\* with different values, and the row holds the second
C2_Witness ==
    \E e \in ledger :
        /\ e.prevRid > 0 /\ e.rid > e.prevRid /\ e.prev # e.rating
        /\ resp.rid = e.rid /\ resp.status = 201
        /\ \E x \in ratings : x.user_id = e.user_id /\ x.store_id = e.store_id /\ x.rating = e.rating

\* C3: in any interleaving of submissions, each pair for which a submission
\* has committed has exactly one row, and its value is that of the submission
\* that committed last.
C3_LastCommitWins ==
    \A e \in ledger :
        LET rows == RowsOf(ratings, e.user_id, e.store_id)
        IN  Cardinality(rows) = 1 /\ \A x \in rows : x.rating = e.rating

\* two requests for one pair were in flight together: the one that arrived
\* second committed first, the one that arrived first committed last
C3_Witness ==
    \E e \in ledger :
        /\ e.rid > 0 /\ e.prevRid > e.rid /\ e.prev # e.rating
        /\ \E x \in ratings : x.user_id = e.user_id /\ x.store_id = e.store_id /\ x.rating = e.rating
\* the step of C4: what one step of the system must satisfy
C4_Step ==
    /\ (Arrives /\ ArrivedOp = "rating" /\ GatePasses(ArrivedReq.auth)
            /\ ArrivedReq.body.userId # ArrivedReq.auth.token.payload.id)
        => (~ArrivedAccepted /\ resp'.status = 403 /\ ratings' = ratings)
    /\ (ratings' # ratings)
        => /\ Responds /\ resp'.op = "rating"
           /\ \A x \in (ratings' \ ratings) \cup (ratings \ ratings') :
                  x.user_id = resp'.req.auth.token.payload.id

\* C4: a rating request of an authenticated caller whose body userId is not
\* the id in the token is answered 403 on arrival and never reaches storage;
\* and the only rows a step writes are rows of the caller whose request it
\* answers.
C4_SelfScope == [][C4_Step]_vars

\* a caller with a good token has asked to rate a store, with a valid value,
\* in the name of another user
C4_Witness ==
    /\ resp.op = "rating" /\ resp.status = 403
    /\ resp.msg = "You can only submit ratings as yourself"
    /\ resp.req.auth.token \in issued
    /\ resp.req.body.userId # resp.req.auth.token.payload.id
    /\ resp.req.body.storeId = 1 /\ validate_rating(resp.req.body.rating) = ""
    /\ ratings = SeedRatings


AccountBodyValid(b) ==
    /\ validate_name(b.name) = "" /\ validate_email(b.email) = ""
    /\ validate_address(b.address) = ""
    /\ validate_password(b.password) = "" /\ b.role \in {"admin", "user"}

StoreBodyValid(b) ==
    validate_name(b.name) = "" /\ validate_email(b.email) = "" /\ validate_address(b.address) = ""
\* the step of C5: what one step of the system must satisfy
C5_Step ==
    /\ (Arrives /\ ArrivedOp \in {"addUser", "addStore"} /\ GatePasses(ArrivedReq.auth)
            /\ ArrivedReq.auth.token.payload.role # "admin")
        => (~ArrivedAccepted /\ resp'.status = 403 /\ resp'.msg = "Admin access required"
            /\ UNCHANGED tables)
    /\ \A r \in pending' : r.op \in {"addUser", "addStore"} => r.user.role = "admin"
    /\ (users' # users \/ stores' # stores)
        => (Responds /\ resp'.req.auth.token.payload.role = "admin")

C6_Step ==
    /\ (Responds /\ resp'.op = "addStore" /\ resp'.status # 201) => UNCHANGED <<users, stores>>
    /\ (Responds /\ resp'.op = "addStore" /\ resp'.err = "23505")
        => (resp'.status = 400 /\ resp'.msg = "Email already exists for a user/owner.")
    /\ (Responds /\ resp'.op = "addStore" /\ resp'.status = 400 /\ resp'.err = "")
        => ~StoreBodyValid(resp'.req.body)
    /\ (~Responds) => UNCHANGED <<users, stores>>
    /\ (Responds /\ resp'.op = "addStore" /\ resp'.status = 201)
        => \E u \in users' \ users, s \in stores' \ stores :
              /\ users' = users \cup {u} /\ stores' = stores \cup {s}
              /\ s.owner_id = u.id /\ u.role = "store_owner"
              /\ u.id = resp'.out.ownerId /\ s.id = resp'.out.storeId

\* C6: POST /admin/stores is all or nothing.  A step that answers it with a
\* failure leaves users and stores as they are, and so does every step of it
\* before the answer; the one step of it that writes adds the owner and the
\* store together; and a unique violation (23505) is answered 400.
C6_AllOrNothing == [][C6_Step]_vars

\* the owner row was inserted in the transaction (its id was drawn), the
\* store insert then hit the email of an existing store, and nothing stayed
C6_Witness ==
    /\ resp.op = "addStore" /\ resp.status = 400 /\ resp.err = "23505"
    /\ resp.req.body.email = MegaStoreEmail
    /\ userSeq > 7
    /\ users = SeedUsers /\ stores = SeedStores


ProtectedOps == {"getUsers", "getStores", "getRatings", "addUser", "addStore", "password", "rating"}
\* the step of C7: what one step of the system must satisfy
C7_Step ==
    (Arrives /\ ArrivedOp \in ProtectedOps /\ ~GatePasses(ArrivedReq.auth))
        => (~ArrivedAccepted /\ resp'.status = 401)

\* C7: a protected operation called with no token, with a token that is not
\* the server's or is malformed, or with an expired token is answered 401 on
\* arrival, and the handler does not run.
C7_Unauthenticated401 == [][C7_Step]_vars
\* the step of C8: what one step of the system must satisfy
C8_Step ==
    (Arrives /\ ArrivedOp \in ProtectedOps /\ ArrivedReq.auth.kind = "bearer"
        /\ ArrivedReq.auth.token \in issued)
    => LET iat == ArrivedReq.auth.token.payload.iat
       IN  /\ now < iat + TokenTTL => ArrivedAccepted
           /\ now > iat + TokenTTL => (~ArrivedAccepted /\ resp'.status \in {401, 403})

\* C8: a token the server issued at time iat passes the gate at every time
\* before iat + 24 h and is rejected at every time after iat + 24 h.
C8_TokenWindow == [][C8_Step]_vars

\* a token of the server was presented more than 24 h after its issue and
\* was turned away, while a request that carried the same token before the
\* 24 h were over had been let through and is still waiting on storage
C8_Witness ==
    /\ resp.op = "getStores" /\ resp.status = 403
    /\ resp.req.auth.token \in issued
    /\ now > resp.req.auth.token.payload.iat + TokenTTL
    /\ \E r \in pending : r.req.auth = resp.req.auth /\ r.rid < resp.rid

\* the step of C9: what one step of the system must satisfy
C9_Step ==
    (Responds /\ resp'.op = "login") =>
        \A a \in signedUp :
            a.email = resp'.req.body.email =>
                IF resp'.req.body.password = a.password
                THEN /\ resp'.status = 200
                     /\ resp'.out.user.id = a.id
                     /\ resp'.out.user.email = a.email
                     /\ resp'.out.user.role = a.role
                     /\ resp'.out.token.payload.id = a.id
                ELSE resp'.status = 401

\* what signup answers is what it stored
C9_SignupStep ==
    (Responds /\ resp'.op = "signup" /\ resp'.status = 201) =>
        /\ AccountBodyValid([resp'.req.body EXCEPT !.role = "user"])
        /\ \E a \in signedUp' \ signedUp :
              /\ a.id = resp'.out.user.id /\ a.email = resp'.out.user.email
              /\ a.role = resp'.out.user.role /\ a.password = resp'.req.body.password
              /\ a.email = resp'.req.body.email

\* C9: once signup has created an account, a login with the email and the
\* password given at signup is answered 200 with the id, email and role that
\* signup returned, and a login with that email and any other password is
\* answered 401.
C9_SignupThenLogin == [][C9_Step /\ C9_SignupStep]_vars

\* the account made by signup has logged in with its password
C9_Witness ==
    /\ resp.op = "login" /\ resp.status = 200
    /\ \E a \in signedUp :
          /\ a.email = resp.req.body.email /\ a.password = resp.req.body.password
          /\ resp.out.user.id = a.id /\ resp.out.user.role = "user"

EmailsOf(rows) == {u.email : u \in rows}
\* the step of C10: what one step of the system must satisfy
C10_Step ==
    /\ \A r \in pending :
          (r.op \in {"signup", "addUser"} /\ r.pc = "select" /\ r \notin pending'
                /\ r.req.body.email \in EmailsOf(users))
            => /\ resp'.rid = r.rid /\ resp'.status = 400
               /\ resp'.msg = "Email already exists"
               /\ users' = users
    /\ \A u \in users : \E v \in users' : v.id = u.id /\ v.email = u.email

C10_EmailsUnique == \A u \in users, v \in users : u.email = v.email => u = v

\* C10: when the existence check of signup or of admin createUser runs for an
\* email that belongs to a user, the request is answered 400 "Email already
\* exists" and users stays as it is.  An email that belongs to a user at the
\* call still does when the check runs, as no step removes a user or changes
\* an email.  And no two rows of users share an email.
C10_DuplicateEmail == []C10_EmailsUnique /\ [][C10_Step]_vars

\* an admin has asked for an account with the email of an existing user
C10_Witness ==
    /\ resp.op = "addUser" /\ resp.status = 400 /\ resp.msg = "Email already exists"
    /\ resp.req.body.email = JaneEmail
    /\ users = SeedUsers

\* an integer from 1 to 5, as the ratings table stores it
RatingIsInteger1to5(rating) ==
    rating.kind = "num" /\ rating.x10 % 10 = 0
        /\ rating.x10 >= RatingMin * 10 /\ rating.x10 <= RatingMax * 10

\* the step of C11: what one step of the system must satisfy
C11_Step ==
    /\ (Arrives /\ ArrivedOp = "rating" /\ GatePasses(ArrivedReq.auth)
            /\ ArrivedReq.body.userId = ArrivedReq.auth.token.payload.id
            /\ ~RatingIsInteger1to5(ArrivedReq.body.rating))
        => (~ArrivedAccepted /\ resp'.status = 400 /\ ratings' = ratings)
    /\ (Arrives /\ ArrivedOp = "rating" /\ GatePasses(ArrivedReq.auth)
            /\ ArrivedReq.body.userId = ArrivedReq.auth.token.payload.id
            /\ RatingIsInteger1to5(ArrivedReq.body.rating) /\ ArrivedReq.body.storeId # 0)
        => ArrivedAccepted
    /\ (Responds /\ resp'.op = "rating" /\ resp'.status = 201)
        => RatingIsInteger1to5(resp'.req.body.rating)

\* C11: a rating request of a caller who rates as themselves is taken on
\* exactly when its value is an integer from 1 to 5; every other value (below
\* 1, above 5, not a number, or a number such as 2.5) is answered 400 on
\* arrival and ratings stays as it is.
C11_RatingValidation == [][C11_Step]_vars

\* the number of tenths a displayed average stands for (parseFloat, times ten)
ShownTenths(text) ==
    10 * (CHOOSE d \in 0..9 : DigitChars[d + 1] = text[1])
        + (CHOOSE d \in 0..9 : DigitChars[d + 1] = text[3])

\* the ratings of a store in the loaded data
RatingsOf(storeId) == {r \in ratingData : r.storeId = storeId}

\* the step of C12: what one rendering of an average must satisfy
C12_Step ==
    (shown' # shown /\ RatingsOf(shown'.storeId) # {}) =>
        LET rows == RatingsOf(shown'.storeId)
            n == Cardinality(rows)
            s == reduce(rows)
            text == shown'.text
            t == ShownTenths(text)
        IN  /\ Len(text) = 3 /\ text[2] = "."
            /\ text[1] \in {"1", "2", "3", "4", "5"}
            /\ 2 * (n * t - 10 * s) <= n /\ 2 * (10 * s - n * t) <= n
            /\ t >= 10 /\ t <= 50
            /\ ({r.rating : r \in rows} = {4, 5} /\ n = 2) => text = <<"4", ".", "5">>
            /\ ({r.rating : r \in rows} = {3, 4, 5} /\ n = 3) => text = <<"4", ".", "0">>

\* C12: for every non-empty set of ratings of a store, each of the three
\* dashboards displays the arithmetic mean rounded to one decimal place (a
\* value with one decimal at most 0.05 from the mean); ratings 5 and 4 give
\* "4.5", ratings 5, 4 and 3 give "4.0"; and the value is between 1.0 and 5.0.
C12_AverageRounded == [][C12_Step]_vars

\* the owner dashboard shows "4.7" for the ratings 5, 5 and 4 (mean 4.666...)
C12_Witness ==
    /\ shown.who = "owner" /\ shown.storeId = 1
    /\ Cardinality(RatingsOf(1)) = 3 /\ reduce(RatingsOf(1)) = 14
    /\ shown.text = <<"4", ".", "7">>

\* the step of C13: what one rendering for a store without ratings must satisfy
C13_Step ==
    (shown' # shown /\ RatingsOf(shown'.storeId) = {}) => shown'.text = <<"0", ".", "0">>

\* C13: for a store with no ratings, and for a store id that matches no
\* store, each of the three dashboards displays the zero sentinel "0.0", never
\* the result of a division by zero.
C13_EmptyIsZero == [][C13_Step]_vars

\* a dashboard shows "0.0" for an id that matches no store, in a database
\* where the first store has no rating yet and the second has some
C13_Witness ==
    /\ shown.storeId = 9 /\ \A s \in stores : s.id # 9
    /\ RatingsOf(1) = {} /\ RatingsOf(2) # {}
    /\ shown.text = <<"0", ".", "0">>

\* the step of C14: what one step of the system must satisfy
C14_Step ==
    /\ (Arrives /\ ArrivedOp = "addUser" /\ GatePasses(ArrivedReq.auth)
            /\ ArrivedReq.auth.token.payload.role = "admin"
            /\ ArrivedReq.body.role \notin {"admin", "user"})
        => (~ArrivedAccepted /\ resp'.status = 400 /\ users' = users)
    /\ (Responds /\ resp'.op = "addUser" /\ users' # users)
        => \E u \in users' \ users :
              /\ users' = users \cup {u} /\ u.role = resp'.req.body.role
              /\ u.role \in {"admin", "user"} /\ resp'.status = 201
    /\ (Responds /\ resp'.op = "signup" /\ (users' # users \/ resp'.status = 201))
        => \E u \in users' \ users :
              /\ users' = users \cup {u} /\ u.role = "user"
              /\ resp'.out.user.id = u.id /\ resp'.out.user.role = "user"
              /\ resp'.out.token.payload.role = "user"
    /\ \A u \in users' \ users :
          u.role = "store_owner" => (Responds /\ resp'.op = "addStore" /\ resp'.status = 201)

\* C14: the admin's createUser makes accounts of role admin or user only: a
\* body with role store_owner, with no role or with any other role is answered
\* 400 on arrival and users stays as it is; signup makes an account of role
\* user whatever role its body carries; and a user of role store_owner is only
\* ever added by a successful createStoreWithOwner.
C14_RolesByPath == [][C14_Step]_vars

\* the admin's createUser has made an admin, and then signup, called with
\* role store_owner in its body, has made a user of role user
C14_Witness ==
    /\ resp.op = "signup" /\ resp.status = 201 /\ resp.req.body.role = "store_owner"
    /\ \E u \in users : u.id = resp.out.user.id /\ u.role = "user"
    /\ resp.out.token.payload.role = "user"
    /\ \E u \in users : u.id > 6 /\ u.role = "admin"
    /\ ~\E u \in users : u.id > 6 /\ u.role = "store_owner"

\* the step of C15: what one step of the system must satisfy
C15_Step ==
    /\ (Arrives /\ ArrivedOp = "password" /\ GatePasses(ArrivedReq.auth)
            /\ ArrivedReq.auth.token.payload.role # "admin"
            /\ \E T \in 1..MaxUsers :
                  /\ int4in(ArrivedReq.body.userId) = {T}
                  /\ ArrivedReq.auth.token.payload.id # T)
        => (~ArrivedAccepted /\ resp'.status = 403 /\ users' = users)
    /\ \A u \in users, v \in users' :
          (u.id = v.id /\ u.password # v.password)
            => /\ Responds /\ resp'.op = "password" /\ resp'.status = 200
               /\ (resp'.req.auth.token.payload.id = u.id
                      \/ resp'.req.auth.token.payload.role = "admin")
               /\ validate_password(resp'.req.body.newPassword) = ""
               /\ bcrypt_compare(resp'.req.body.newPassword, v.password)

\* C15: a password update of a caller who is neither the user whose id is
\* the path's userId nor an admin is answered 403 and changes no user; and in
\* every step that changes the password hash of a user T, the step answers a
\* password update whose caller is T or an admin and whose new password
\* passes validation.
C15_PasswordAuthorized == [][C15_Step]_vars

\* 8 to 16 characters, an uppercase letter and one of !@#$%^&*()
PasswordOk(p) ==
    /\ Len(p) >= 8 /\ Len(p) <= 16
    /\ \E i \in 1..Len(p) : p[i] \in UpperChars
    /\ \E i \in 1..Len(p) : p[i] \in SpecialChars

\* the password a request asks to store
RequestPassword(op, body) == IF op = "password" THEN body.newPassword ELSE body.password

\* the request passes the gate and the role or self-scope check of its operation
Authorized(op, req) ==
    \/ op = "signup"
    \/ /\ op = "addUser" /\ GatePasses(req.auth) /\ req.auth.token.payload.role = "admin"
    \/ /\ op = "password" /\ GatePasses(req.auth)
       /\ (req.auth.token.payload.role = "admin" \/ int4in(req.body.userId) = {req.auth.token.payload.id})

\* the step of C16: what one step of the system must satisfy
C16_Step ==
    /\ (Arrives /\ ArrivedOp \in {"signup", "addUser", "password"} /\ Authorized(ArrivedOp, ArrivedReq))
        => LET p == RequestPassword(ArrivedOp, ArrivedReq.body) IN
           /\ ~PasswordOk(p) => (~ArrivedAccepted /\ resp'.status = 400 /\ users' = users)
           /\ (PasswordOk(p) /\ (ArrivedOp = "password" \/ AccountBodyValid([ArrivedReq.body EXCEPT !.password = ValidPw])))
                => ArrivedAccepted
           /\ (validate_password(p) = "") <=> PasswordOk(p)
    /\ (Responds /\ resp'.op \in {"signup", "addUser", "password"} /\ users' # users)
        => PasswordOk(RequestPassword(resp'.op, resp'.req.body))
    /\ \A r \in pending' : r.op \in {"signup", "addUser", "password"} => PasswordOk(RequestPassword(r.op, r.req.body))
    /\ validate_password(ShortPw) # "" /\ validate_password(LowerPw) # "" /\ validate_password(ValidPw) = ""

\* C16: the password rule passes exactly the passwords of 8 to 16 characters
\* with an uppercase letter and a character of !@#$%^&*() ("short1!" and
\* "alllowercase1!" fail, "Valid@123" passes), and signup, the admin's
\* createUser and the password update apply it on arrival: a request with a
\* password that fails is answered 400 and never reaches storage, and every
\* request that waits on storage or changes users carries one that passes.
C16_PasswordRule == [][C16_Step]_vars

\* a user has asked to change their own password to "alllowercase1!" and got
\* 400, after a request with a password of 16 characters was taken on
C16_Witness ==
    /\ resp.op = "password" /\ resp.status = 400 /\ resp.req.body.newPassword = LowerPw
    /\ resp.msg = "Password must include at least one uppercase letter."
    /\ resp.req.auth.token.payload.id = 2
    /\ \E r \in pending : r.op \in {"signup", "addUser"} /\ r.req.body.password = SixteenPw
    /\ users = SeedUsers

\* the step of C17: what one step of the system must satisfy
C17_Step ==
    /\ (Arrives /\ ArrivedOp = "signup")
        => LET b == ArrivedReq.body
               nameOk == b.name >= 20 /\ b.name <= 60
               emailOk == EmailMatches(b.email)
               addressOk == b.address >= 1 /\ b.address <= 400
               passwordOk == validate_password(b.password) = ""
           IN  /\ (b.name = 19 /\ emailOk /\ addressOk /\ passwordOk)
                    => /\ ~ArrivedAccepted /\ resp'.status = 400
                       /\ resp'.msg = "Name must be at least 20 characters."
                       /\ users' = users
               /\ (b.name = 20 /\ emailOk /\ addressOk /\ passwordOk) => ArrivedAccepted
               /\ ~(nameOk /\ emailOk /\ addressOk /\ passwordOk)
                    => /\ ~ArrivedAccepted /\ resp'.status = 400 /\ users' = users
                       /\ resp'.msg = IF ~nameOk THEN validate_name(b.name)
                                      ELSE IF ~emailOk THEN validate_email(b.email)
                                      ELSE IF ~addressOk THEN validate_address(b.address)
                                      ELSE validate_password(b.password)
                       /\ resp'.msg # ""
    /\ (Responds /\ resp'.op = "signup" /\ resp'.req.body.name = 20 /\ AccountBodyValid(resp'.req.body))
        => \/ /\ resp'.status = 201
              /\ \E u \in users' \ users :
                    /\ users' = users \cup {u} /\ u.name = 20 /\ u.email = resp'.req.body.email
                    /\ u.id = resp'.out.user.id
           \/ /\ resp'.req.body.email \in EmailsOf(users) /\ users' = users

\* C17: a signup whose name has 19 characters, its other fields valid, is
\* answered 400 "Name must be at least 20 characters." on arrival and adds no
\* user; the same request with 20 characters is taken on and, its email being
\* free, answered 201 with the user added; and when several fields are
\* invalid the message is that of the first invalid one in the order name,
\* email, address, password.
C17_NameBoundary == [][C17_Step]_vars

\* a signup with a name of 20 characters has made a user, and then a signup
\* with a name of 19 characters, its other fields valid, was answered 400 for
\* its name
C17_Witness ==
    /\ resp.op = "signup" /\ resp.status = 400 /\ resp.req.body.name = 19
    /\ resp.msg = "Name must be at least 20 characters."
    /\ AccountBodyValid([resp.req.body EXCEPT !.name = 20])
    /\ \E u \in users : u.id = 7 /\ u.name = 20 /\ u.email = NewEmail /\ u.role = "user"
    /\ Cardinality(users) = 7

\* the step of C18: what one step of the system must satisfy
C18_Step ==
    (/\ Responds /\ resp'.op = "addStore" /\ resp'.err # "08006"
     /\ resp'.req.auth.kind = "bearer" /\ resp'.req.auth.token \in issued
     /\ resp'.req.auth.token.payload.role = "admin"
     /\ resp'.req.body.name >= 20 /\ resp'.req.body.name <= 60
     /\ EmailMatches(resp'.req.body.email)
     /\ resp'.req.body.email \notin EmailsOf(users) \cup EmailsOf(stores)
     /\ resp'.req.body.address >= 1 /\ resp'.req.body.address <= 400)
    => /\ resp'.status = 201
       /\ \E u \in users' \ users, s \in stores' \ stores :
             /\ users' = users \cup {u} /\ stores' = stores \cup {s}
             /\ u.role = "store_owner" /\ s.owner_id = u.id
             /\ s.name = resp'.req.body.name /\ s.email = resp'.req.body.email

\* C18: when the storage works, every createStoreWithOwner of an admin with a
\* store name of 20 to 60 characters, a well-formed email that no user and no
\* store has, and an address of 1 to 400 characters is answered 201 and adds
\* exactly one user, of role store_owner, and exactly one store, owned by
\* that user.
C18_StoreNameRange == [][C18_Step]_vars

\* the step of C19: what one step of the system must satisfy
C19_Step ==
    (/\ Responds /\ resp'.op = "rating"
     /\ resp'.req.auth.kind = "bearer" /\ resp'.req.auth.token \in issued
     /\ resp'.req.body.userId = resp'.req.auth.token.payload.id
     /\ RatingIsInteger1to5(resp'.req.body.rating)
     /\ resp'.req.body.storeId # 0
     /\ ~\E s \in stores : s.id = resp'.req.body.storeId)
    => (resp'.status \in {400, 404} /\ ratings' = ratings)

\* C19: a submitRating of a caller who rates as themselves, with a value from
\* 1 to 5 and a storeId that no store has, writes no row and is answered 400
\* or 404, not 500.
C19_MissingStore == [][C19_Step]_vars

\* the step of C20: what one step of the system must satisfy
C20_Step ==
    (/\ Responds /\ resp'.op = "login"
     /\ resp'.req.body.email # Missing /\ resp'.req.body.password # Missing
     /\ typeof(resp'.req.body.password) = "string")
    => LET known == {u \in users : u.email = resp'.req.body.email}
           right == \E u \in known : bcrypt_compare(resp'.req.body.password, u.password)
       IN  IF right THEN resp'.status = 200
           ELSE /\ resp'.status = 401 /\ resp'.msg = "Invalid credentials"
                /\ resp'.out = NoOut /\ resp'.err = ""

ResponseFields(out) ==
    DOMAIN out
        \cup (IF "user" \in DOMAIN out THEN DOMAIN out.user ELSE {})
        \cup (IF "token" \in DOMAIN out THEN DOMAIN out.token.payload ELSE {})
        \cup (IF "rows" \in DOMAIN out THEN UNION {DOMAIN row : row \in out.rows} ELSE {})

\* the passwords the requests in flight carry, and the default one of owners
PasswordsGiven ==
    {r.req.body.password : r \in {q \in pending : q.op \in {"signup", "addUser"}}}
        \cup {r.req.body.newPassword : r \in {q \in pending : q.op = "password"}}
        \cup {StorePw}

C21_Step ==
    /\ Responds => "password" \notin ResponseFields(resp'.out)
    /\ \A u \in users' :
          (\A v \in users : v.id = u.id => v.password # u.password) =>
              \E p \in PasswordsGiven, salt \in Salts : u.password = bcrypt_hash(p, salt)

\* C21: no response of any endpoint carries a password field, and a password
\* written to the users table is the salted hash of the password supplied,
\* never the password itself.
C21_NoPasswordOut == [][C21_Step]_vars

\* the list of users is answered after a signup and a password update have each
\* stored a hash, and no row of it has a password
C21_Witness ==
    /\ resp.op = "getUsers" /\ resp.status = 200
    /\ \E row \in resp.out.rows : row.id = 7
    /\ \E u \in users : u.id = 7 /\ u.password \in {bcrypt_hash(UserPw, salt) : salt \in Salts}
    /\ \A row \in resp.out.rows : "password" \notin DOMAIN row

C22_Step ==
    (Responds /\ resp'.op \in {"signup", "addUser"}) =>
        /\ resp'.err = "23505" => (resp'.status = 400 /\ resp'.msg = "Email already exists")
        /\ ((\E r \in pending : r.rid = resp'.rid) /\ (\E u \in users : u.email = resp'.req.body.email))
               => resp'.status = 400

\* C22: a request of signup or of admin createUser whose INSERT meets the
\* unique constraint on users.email, or that has passed validation and whose
\* email belongs to a user when it is answered, is answered 400 "Email already
\* exists"; so of two concurrent requests with one fresh email, one makes
\* the user and the other is answered 400.
C22_RaceIsDuplicateEmail == [][C22_Step]_vars

MutatingOps == {"addUser", "addStore", "password", "rating"}

\* the role or self-scope check of a protected operation that writes
RoleOrSelfOk(op, req) ==
    LET user == req.auth.token.payload IN
    IF op \in {"addUser", "addStore"} THEN user.role = "admin"
    ELSE IF op = "rating" THEN user.id = req.body.userId
    ELSE user.role = "admin" \/ user.id = parseInt(req.body.userId)

\* the payload passes the validation of its operation
PayloadValid(op, body) ==
    IF op = "addUser" THEN AccountBodyValid(body)
    ELSE IF op = "addStore" THEN StoreBodyValid(body)
    ELSE IF op = "password" THEN PasswordOk(body.newPassword)
    ELSE validate_rating(body.rating) = "" /\ body.storeId # 0

C23_Step ==
    (Arrives /\ ArrivedOp \in MutatingOps) =>
        LET req == ArrivedReq
            op == ArrivedOp
            gate == authenticateToken(req.auth, now)
        IN
        /\ gate # 0 => (~ArrivedAccepted /\ resp'.status = gate)
        /\ (gate = 0 /\ ~RoleOrSelfOk(op, req)) => (~ArrivedAccepted /\ resp'.status = 403)
        /\ (gate = 0 /\ RoleOrSelfOk(op, req) /\ ~PayloadValid(op, req.body))
              => (~ArrivedAccepted /\ resp'.status = 400)
        /\ (gate = 0 /\ RoleOrSelfOk(op, req) /\ PayloadValid(op, req.body)) => ArrivedAccepted
        /\ UNCHANGED <<users, stores, ratings, userSeq, storeSeq, ratingSeq>>

GateMessages == {"Access token required", "Invalid or expired token"}

C24_Step ==
    (/\ Arrives /\ ArrivedOp \in ProtectedOps
     /\ ArrivedReq.auth.kind = "bearer" /\ ArrivedReq.auth.token \in issued
     /\ now < ArrivedReq.auth.token.payload.exp)
        => (ArrivedAccepted \/ resp'.msg \notin GateMessages)

\* C24: a token the server has issued passes the gate of every protected
\* operation at any time before its expiry, whatever has happened since it
\* was issued: the browser dropping it at logout, the password of its user
\* being changed.
C24_NoSessionState == [][C24_Step]_vars

\* a list is answered to a token that the browser had dropped before the
\* request came, the password of the token's user being no longer the one of
\* the login
C24_Witness ==
    /\ resp.op \in {"getUsers", "getStores", "getRatings"} /\ resp.status = 200
    /\ pending = {}
    /\ \E d \in discarded : d.token = resp.req.auth.token /\ d.at < resp.rid
    /\ \E u \in users : u.id = resp.req.auth.token.payload.id /\ u.password # SeedHash(UserPw)

Roles == {"admin", "user", "store_owner"}

C25_OneRole ==
    /\ \A u \in users : u.role \in Roles
    /\ \A u \in users, v \in users : u.id = v.id => u = v

C25_Step ==
    /\ \A u \in users : \E v \in users' : v.id = u.id /\ v.role = u.role
    /\ (Arrives /\ ArrivedOp \in ProtectedOps /\ authenticateToken(ArrivedReq.auth, now) = 0) =>
          \E u \in users : u.id = ArrivedReq.auth.token.payload.id
                            /\ u.role = ArrivedReq.auth.token.payload.role

\* C25: every user has one role, one of admin, user and store_owner; no step
\* changes the role of a user or removes a user; and the role in a token that
\* the gate of a protected operation accepts is the role stored for the
\* user the token names.
C25_RoleImmutable == []C25_OneRole /\ [][C25_Step]_vars

\* the admin, whose password has been changed, has a request accepted with a
\* token that says admin, and is an admin still
C25_Witness ==
    /\ \E r \in pending : r.op \in ProtectedOps /\ r.user.id = 1 /\ r.user.role = "admin"
    /\ \E u \in users : u.id = 1 /\ u.role = "admin" /\ u.password # SeedHash(AdminPw)

\* the ratings of a store the open dashboard has, and those committed
Displayed(storeId) == {r \in ratingData : r.storeId = storeId}
Committed(storeId) == {r \in getRatings(GetRatingsRows) : r.storeId = storeId}

\* a dashboard is open, at rest, and does not have the committed ratings of the store
StaleAtRest(storeId) ==
    /\ currentUser # NoUser /\ browser.pc = "idle"
    /\ Displayed(storeId) # Committed(storeId)

\* C26: an open dashboard does not rest for ever on ratings of a store that
\* are no longer the committed ones: once a rating is committed, the
\* dashboard comes to have it (its average, its count and its rater list are
\* computed from what it has), unless the viewer closes it or it is loading.
C26_LiveUpdates == \A s \in {1, 2} : StaleAtRest(s) ~> ~StaleAtRest(s)

\* C27: in every reachable state every row of ratings names a user and a
\* store that exist, and every row of stores names as owner a user that
\* exists.
C27_ReferentialIntegrity ==
    /\ \A x \in ratings : (\E u \in users : u.id = x.user_id) /\ (\E s \in stores : s.id = x.store_id)
    /\ \A s \in stores : \E u \in users : u.id = s.owner_id

\* a store made by the admin, with its owner, has been rated, and no rating
\* names store 9, which does not exist
C27_Witness ==
    /\ \E s \in stores : s.id = 3 /\ s.owner_id = 7 /\ \E x \in ratings : x.store_id = 3
    /\ \A x \in ratings : x.store_id # 9

StoresOf(u) == {s \in stores : s.owner_id = u.id}

C28_OneStorePerOwner ==
    /\ \A u \in users : Cardinality(StoresOf(u)) = IF u.role = "store_owner" THEN 1 ELSE 0
    /\ \A s \in stores, t \in stores : s.owner_id = t.owner_id => s = t

C28_Step ==
    (Responds /\ resp'.status = 200) =>
        /\ resp'.op = "login" =>
              (resp'.out.user.role = "store_owner" =>
                  \E s \in stores : s.id = resp'.out.storeId /\ s.owner_id = resp'.out.user.id)
        /\ resp'.op = "getUsers" =>
              \A row \in resp'.out.rows :
                  row.role = "store_owner" => \E s \in stores : s.id = row.storeId /\ s.owner_id = row.id
        /\ resp'.op = "getStores" =>
              \A s \in resp'.out.rows : \E u \in users : u.id = s.owner_id /\ u.role = "store_owner"

\* C28: in every committed state a store_owner owns exactly one store, an
\* admin or a user owns none, and no two stores have one owner; and every
\* owner that a login, the list of users or the list of stores shows comes
\* with the store it owns.
C28_OwnerHasStore == []C28_OneStorePerOwner /\ [][C28_Step]_vars

\* the owner of the store the admin has just created logs in and is told the
\* store
C28_Witness ==
    /\ resp.op = "login" /\ resp.status = 200
    /\ resp.out.user.id = 7 /\ resp.out.user.role = "store_owner" /\ resp.out.storeId = 3
    /\ \E s \in stores : s.id = 3 /\ s.owner_id = 7

ReadOps == {"login", "getUsers", "getStores", "getRatings"}
ErrorStatuses == {400, 401, 403, 500}

C29_Step ==
    /\ (Responds /\ resp'.status \in ErrorStatuses) => UNCHANGED tables
    /\ (Responds /\ resp'.op \in ReadOps) => UNCHANGED tables
    /\ ~Responds => UNCHANGED tables

\* C29: the committed tables users, stores and ratings change only in the
\* step in which a request is answered, and not when the answer is 400, 401,
\* 403 or 500 nor when the request is a login or a list: so a request that
\* ends in an error has changed no table, and a read never does.
C29_ErrorsChangeNothing == [][C29_Step]_vars

\* createStore has inserted the owner, failed on the store (its email is the
\* one of a store), and been answered 400, with the tables as they were
C29_Witness ==
    /\ resp.op = "addStore" /\ resp.status = 400 /\ resp.err = "23505"
    /\ resp.req.body.email = MegaStoreEmail
    /\ userSeq = 8
    /\ tables = <<SeedUsers, SeedStores, SeedRatings>>

C30_Step ==
    /\ (/\ Arrives /\ ArrivedOp = "rating" /\ authenticateToken(ArrivedReq.auth, now) = 0
        /\ ArrivedReq.auth.token.payload.id = ArrivedReq.body.userId
        /\ validate_rating(ArrivedReq.body.rating) = "" /\ ArrivedReq.body.storeId # 0)
          => ArrivedAccepted
    /\ (/\ Responds /\ resp'.op = "rating" /\ \E r \in pending : r.rid = resp'.rid
        /\ RatingIsInteger1to5(resp'.req.body.rating)
        /\ \E s \in stores : s.id = resp'.req.body.storeId)
          => /\ resp'.status = 201
             /\ \E x \in ratings' : /\ x.user_id = resp'.req.body.userId
                                    /\ x.store_id = resp'.req.body.storeId
                                    /\ x.rating * 10 = resp'.req.body.rating.x10
    /\ (Responds /\ resp'.op = "getRatings" /\ resp'.status = 200)
          => \A x \in ratings : \E row \in resp'.out.rows :
                row.user_id = x.user_id /\ row.store_id = x.store_id /\ row.rating = x.rating

\* C30: a rating request is let through on the self-scope check alone,
\* whatever the role in its token: a valid rating that an admin, a store owner
\* or a user submits as themselves for an existing store is stored and
\* answered 201, and the list of ratings, from which the averages are
\* computed, carries it; so an owner can rate the store they own.
C30_AnyRoleRates == [][C30_Step]_vars

\* the owner of the first store has rated it 1, and the average computed from
\* the list of ratings, 5, 4 and 1, is 3.3
C30_Witness ==
    /\ resp.op = "getRatings" /\ resp.status = 200
    /\ \E row \in resp.out.rows : row.user_id = 3 /\ row.store_id = 1 /\ row.rating = 1
    /\ \E s \in stores : s.id = 1 /\ s.owner_id = 3
    /\ Average({r \in getRatings(resp.out.rows) : r.storeId = 1}) = <<"3", ".", "3">>

====
